---- MODULE Spec2Model ----
(***************************************************************************)
(* Recurrence scheduling and reminder dispatch of compliance-copilot-api.  *)
(*                                                                         *)
(* Timestamps are whole minutes since an epoch that is 00:00 UTC of some   *)
(* day.  None is NULL for timestamps and NoFrequency / NoAnchorType /      *)
(* NoError for the nullable enum and string columns.                       *)
(***************************************************************************)
EXTENDS Integers, Sequences, FiniteSets, Bags, TLC

\* ------------------------------------------------------------------ units
Minute == 1
Hour == 60
Day == 1440

NULL == -1
NoFrequency == "NONE"
NoAnchorType == "NONE"
NoError == "None"

\* ------------------------------------------------------------- constants
REMINDER_OFFSETS == {30, 7, 1}
GraceWindow == 60
RetryDelay == 5
MaxAttempts == 3
max_loops == 512
DefaultBatchSize == 50

\* ---------------------------------------------------------------- bounds
MaxTicks == 2
MaxScheduled == 6
MaxFailedTotal == 1
MaxOutbox == 2

\* ------------------------------------------------------ finite universes
RequirementIds == {"r1"}
PermitIds == {"p1"}
CertIds == {"c1"}
Emails == {"a@x"}
QueueEmails == {"a@x", "b@x"}
TickSteps == {RetryDelay}
PermitExpiries == {NULL, Day, 40 * Day}
CertExpiries == {20 * Day, 40 * Day}
DraftFrequencies == {"WEEKLY"}
BatchSizes == {1, DefaultBatchSize}
DraftDueDates == {7 * Day}
PatchStatuses == {"OPEN"}
Workers == {"w1", "w2"}
CompleteTickSteps == {12 * Hour, Day, 7 * Day, 30 * Day}
CompleteFrequencies ==
    {NoFrequency, "ONE_TIME", "BEFORE_EACH_USE", "WEEKLY", "MONTHLY", "EVERY_N_DAYS"}
CompleteDueDates == {NULL, Day, 7 * Day}
FaultFrequencies == {"WEEKLY", "EVERY_N_DAYS"}
TxPermitExpiries == {Day}

VARIABLES
    now,            \* the wall clock read by datetime.now(timezone.utc)
    requirements,   \* requirements table: id -> row
    permits,        \* permits table: id -> row
    certs,          \* training_certs table: id -> row
    recipients,     \* emails of the active members of the org
    jobs,           \* reminder_jobs table: a set of rows
    events,         \* events table, the reminder_* rows: a bag of rows
    metrics,        \* the org's OrgRequirementMetrics row, its reminders_* columns
    outbox,         \* messages the EmailClient delivered, a bag of job keys
    last,           \* the last operation: what it was, what it returned and
                    \* the jobs it handed to EmailClient.send
    tx,             \* per worker process: the open transaction of its pass
    sched           \* a call of a schedule.py function: arguments and result

vars == <<now, requirements, permits, certs, recipients, jobs, events, metrics,
          outbox, last, tx, sched>>

\* ---------------------------------------------------------------- datetime
\* The proleptic Gregorian calendar of datetime and calendar.monthrange, for
\* timestamps in the years of Years.
IsLeap(year) == year % 4 = 0 /\ (year % 100 # 0 \/ year % 400 = 0)

\* calendar.monthrange(year, month)[1]: the number of days of the month.
monthrange(year, month) ==
    IF month = 2 THEN (IF IsLeap(year) THEN 29 ELSE 28)
    ELSE IF month \in {4, 6, 9, 11} THEN 30
    ELSE 31

\* The number of days before January 1st of year.
_days_before_year(year) ==
    (year - 1) * 365 + (year - 1) \div 4 - (year - 1) \div 100 + (year - 1) \div 400

_DAYS_BEFORE_MONTH == <<0, 31, 59, 90, 120, 151, 181, 212, 243, 273, 304, 334>>

\* The number of days of the year before the first day of month.
_days_before_month(year, month) ==
    _DAYS_BEFORE_MONTH[month] + (IF month > 2 /\ IsLeap(year) THEN 1 ELSE 0)

\* The ordinal of a date, 0001-01-01 being day 1.
_ymd2ord(year, month, day) ==
    _days_before_year(year) + _days_before_month(year, month) + day

Years == 2023 .. 2032

\* Timestamp 0 is 2023-01-01T00:00:00Z.
EpochOrdinal == _ymd2ord(2023, 1, 1)

\* datetime(year, month, day, hour, minute, tzinfo=UTC)
At(year, month, day, hour, minute) ==
    (_ymd2ord(year, month, day) - EpochOrdinal) * Day + hour * Hour + minute

YearOfOrdinal(ord) ==
    CHOOSE y \in Years : _ymd2ord(y, 1, 1) <= ord /\ ord < _ymd2ord(y + 1, 1, 1)

MonthOfOrdinal(ord, year) ==
    CHOOSE m \in 1 .. 12 :
        /\ _ymd2ord(year, m, 1) <= ord
        /\ ord < _ymd2ord(year, m, 1) + monthrange(year, m)

DateOfOrdinal(ord, year, month) ==
    [year |-> year, month |-> month, day |-> ord - _ymd2ord(year, month, 1) + 1]

\* dt.year, dt.month, dt.day of a UTC timestamp.
DateOf(dt) ==
    CHOOSE date \in {DateOfOrdinal(ord, y, MonthOfOrdinal(ord, y)) :
                        ord \in {dt \div Day + EpochOrdinal},
                        y \in {YearOfOrdinal(dt \div Day + EpochOrdinal)}} : TRUE

\* The minutes since midnight of a UTC timestamp.
TimeOfDay(dt) == dt % Day

\* base.replace(year=year, month=month, day=day)
Replace(base, year, month, day) ==
    (_ymd2ord(year, month, day) - EpochOrdinal) * Day + TimeOfDay(base)

\* ------------------------------------------------------------ schedule.py
\* A start of day that keeps the time of day.
KeepsTimeOfDay(dt) == dt

_start_of_day(dt) == dt - (dt % Day)

\* RecurrenceError raised in place of a return value.
ERR == -2

\* An anchor payload whose date string does not parse (lines 43-49).
InvalidDate == -4

\* compute_next_due, lines 183 and 195: "not anchor_dict", the payload has
\* no key.
AnchorEmpty(anchor_value) == anchor_value.date = NULL /\ anchor_value.interval = NULL

_parse_anchor_datetime(anchor_value) ==
    IF anchor_value.date = InvalidDate THEN ERR ELSE anchor_value.date

\* An anchor derivation that does not read the payload.
DeriveFallbackOnly(anchor_type, anchor_value, fallback, last_completion) == fallback

_derive_anchor_datetime(anchor_type, anchor_value, fallback, last_completion) ==
    LET candidate == _parse_anchor_datetime(anchor_value) IN
    IF candidate = NULL
    THEN IF anchor_type = "FIRST_COMPLETION" /\ last_completion # NULL
         THEN last_completion
         ELSE fallback
    ELSE candidate

\* An interval that falls back to 1 when the payload has none or a value
\* that is not positive.
ReadIntervalDefaultOne(anchor_value) ==
    IF anchor_value.interval <= 0 THEN 1 ELSE anchor_value.interval

\* The interval of the payload: NULL when there is none, ERR for a value
\* that is not a positive integer.
_read_interval(anchor_value) ==
    IF anchor_value.interval = NULL THEN NULL
    ELSE IF anchor_value.interval <= 0 THEN ERR
    ELSE anchor_value.interval

\* The arguments of replace in _add_months, lines 90-95, for a base of the
\* date (year, month, day); clamp says whether line 94 is applied.
ReplaceInMonth(base, total_months, day, clamp) ==
    CHOOSE dt \in {Replace(base, y, m,
                           IF clamp /\ day > monthrange(y, m) THEN monthrange(y, m)
                           ELSE day) :
                      y \in {total_months \div 12}, m \in {(total_months % 12) + 1}} : TRUE

\* _add_months without the clamp of line 94: the day of the month is kept
\* and the date runs over into the following month.
AddMonthsOverflowing(base, months) ==
    IF months <= 0 THEN ERR
    ELSE CHOOSE dt \in {ReplaceInMonth(base, date.year * 12 + (date.month - 1) + months,
                                       date.day, FALSE) : date \in {DateOf(base)}} : TRUE

_add_months(base, months) ==
    IF months <= 0 THEN ERR
    ELSE CHOOSE dt \in {ReplaceInMonth(base, date.year * 12 + (date.month - 1) + months,
                                       date.day, TRUE) : date \in {DateOf(base)}} : TRUE

\* The EVERY_N_* branches: the interval is required.
AdvanceByInterval(current, anchor_value, unit) ==
    LET interval == _read_interval(anchor_value) IN
    IF interval = ERR \/ interval = NULL THEN ERR
    ELSE IF unit = "months" THEN _add_months(current, interval)
    ELSE IF unit = "weeks" THEN current + interval * 7 * Day
    ELSE current + interval * Day

_advance_once(current, frequency, anchor_value) ==
    CASE frequency = "DAILY" -> current + Day
      [] frequency = "WEEKLY" -> current + 7 * Day
      [] frequency = "MONTHLY" -> _add_months(current, 1)
      [] frequency = "QUARTERLY" -> _add_months(current, 3)
      [] frequency = "ANNUAL" -> _add_months(current, 12)
      [] frequency = "EVERY_N_DAYS" -> AdvanceByInterval(current, anchor_value, "days")
      [] frequency = "EVERY_N_WEEKS" -> AdvanceByInterval(current, anchor_value, "weeks")
      [] frequency = "EVERY_N_MONTHS" -> AdvanceByInterval(current, anchor_value, "months")
      [] OTHER -> ERR

\* The loop condition of line 141 with "<" in place of "<=".
LoopRunsWhileBefore(st, reference) ==
    st.candidate # ERR /\ st.candidate < reference /\ st.loops < max_loops

LoopRuns(st, reference) ==
    st.candidate # ERR /\ st.candidate <= reference /\ st.loops < max_loops

\* The while loop of _advance_until_after on the pair (candidate, loops):
\* its condition (LoopRuns) and one pass through its body.
LoopBody(st, reference, frequency, anchor_value) ==
    IF LoopRuns(st, reference)
    THEN [candidate |-> _advance_once(st.candidate, frequency, anchor_value),
          loops |-> st.loops + 1]
    ELSE st

\* n passes through the loop, or fewer when its condition turns false: the
\* first half of the passes, then the rest from where they ended (mid).
RECURSIVE AdvanceLoop(_, _, _, _, _)
AdvanceLoop(st, n, reference, frequency, anchor_value) ==
    IF ~LoopRuns(st, reference) THEN st
    ELSE IF n = 1 THEN LoopBody(st, reference, frequency, anchor_value)
    ELSE CHOOSE end \in
            {AdvanceLoop(mid, n - n \div 2, reference, frequency, anchor_value) :
                mid \in {AdvanceLoop(st, n \div 2, reference, frequency, anchor_value)}} :
            TRUE

\* _advance_until_after without its loop: the start is returned as it is.
AdvanceNever(start, reference, frequency, anchor_value) == start

\* _advance_until_after without the check of lines 145-146: what the loop
\* ended with is returned.
AdvanceWithoutCap(start, reference, frequency, anchor_value) ==
    AdvanceLoop([candidate |-> start, loops |-> 0], max_loops,
                reference, frequency, anchor_value).candidate

_advance_until_after(start, reference, frequency, anchor_value) ==
    LET end == AdvanceLoop([candidate |-> start, loops |-> 0], max_loops,
                           reference, frequency, anchor_value)
    IN  IF end.candidate = ERR THEN ERR
        ELSE IF end.loops >= max_loops /\ end.candidate <= reference THEN ERR
        ELSE end.candidate

compute_next_due(frequency, anchor_type, anchor_value, last_completion, reference_time) ==
    IF frequency = NoFrequency THEN NULL
    ELSE IF frequency = "ONE_TIME"
    THEN IF last_completion # NULL THEN NULL
         ELSE _derive_anchor_datetime(anchor_type, anchor_value, reference_time, NULL)
    ELSE IF frequency = "BEFORE_EACH_USE"
    THEN IF last_completion = NULL THEN _start_of_day(reference_time)
         ELSE _start_of_day(last_completion + Day)
    ELSE IF last_completion = NULL /\ AnchorEmpty(anchor_value) THEN reference_time
    ELSE LET anchor_dt == _derive_anchor_datetime(anchor_type, anchor_value,
                                                  reference_time, last_completion)
             reference == IF last_completion # NULL THEN last_completion
                          ELSE reference_time
         IN  IF anchor_dt = ERR THEN ERR
             ELSE IF last_completion = NULL /\ anchor_dt >= reference THEN anchor_dt
             ELSE IF last_completion # NULL /\ anchor_dt > last_completion THEN anchor_dt
             ELSE _advance_until_after(anchor_dt, reference, frequency, anchor_value)


\* ------------------------------------------------------- reminder_jobs.py
JobKey(j) ==
    <<j.target_type, j.target_id, j.recipient_email, j.reminder_offset_days,
      j.target_due_at>>

\* A reminder_jobs table without the unique constraint.
NoUniqueConstraint(a, b) == FALSE

\* UniqueConstraint uq_reminder_jobs_target_offset: TRUE when row a may not
\* be stored next to row b.
uq_reminder_jobs_target_offset(a, b) == a.id # b.id /\ JobKey(a) = JobKey(b)

\* The rows of pending that the database rejects when they are flushed into
\* a table holding tbl.
UniqueViolations(tbl, pending) ==
    {a \in pending : \E b \in (tbl \cup pending) : uq_reminder_jobs_target_offset(a, b)}

\* uuid4 primary key of a new row: a value no row of tbl carries.
FreshId(key, tbl) ==
    <<key, CHOOSE n \in 0..Cardinality(tbl) : \A j \in tbl : j.id # <<key, n>>>>

\* ------------------------------------------------------------ reminders.py
\* _upsert_job without lines 84-88: the fire time is used as computed.
RunAtAsComputed(due_at, offset_days, t) == due_at - offset_days * Day

\* _upsert_job, lines 83-88: the fire time, or NULL for the early return.
RunAt(due_at, offset_days, t) ==
    LET run_at == due_at - offset_days * Day IN
    IF run_at < t
    THEN IF t - run_at <= GraceWindow THEN t ELSE NULL
    ELSE run_at

\* _upsert_job, lines 90-100: SELECT ... FOR UPDATE SKIP LOCKED by key; rows
\* whose id is in locked are held by another transaction and are skipped.
ExistingRows(tbl, target_type, target_id, due_at, offset_days, email, locked) ==
    {j \in tbl : /\ j.target_type = target_type
                 /\ j.target_id = target_id
                 /\ j.target_due_at = due_at
                 /\ j.reminder_offset_days = offset_days
                 /\ j.recipient_email = email
                 /\ j.id \notin locked}

\* _upsert_job, lines 102-110: the found row after the refresh.
RefreshExisting(existing, run_at) ==
    IF existing.status = "FAILED"
    THEN [existing EXCEPT !.status = "PENDING", !.attempts = 0,
                          !.last_error = NoError, !.run_at = run_at]
    ELSE [existing EXCEPT !.run_at = run_at]

\* _upsert_job, lines 112-124, with the column defaults of ReminderJob.
NewJob(id, target_type, target_id, due_at, offset_days, email, run_at) ==
    [id |-> id, target_type |-> target_type, target_id |-> target_id,
     target_due_at |-> due_at, reminder_offset_days |-> offset_days,
     run_at |-> run_at, recipient_email |-> email, status |-> "PENDING",
     attempts |-> 0, last_attempt_at |-> NULL, last_error |-> NoError]

\* _remove_stale_jobs with the comparison of line 65 turned around: it
\* deletes the PENDING rows of the occurrence it is told to keep.
StaleJobsOfKeptDue(tbl, target_type, target_id, keep_due_at) ==
    {j \in tbl : /\ j.target_type = target_type
                 /\ j.target_id = target_id
                 /\ j.status = "PENDING"
                 /\ (keep_due_at # NULL => j.target_due_at = keep_due_at)}

\* _remove_stale_jobs: the rows its DELETE removes.
StaleJobs(tbl, target_type, target_id, keep_due_at) ==
    {j \in tbl : /\ j.target_type = target_type
                 /\ j.target_id = target_id
                 /\ j.status = "PENDING"
                 /\ (keep_due_at # NULL => j.target_due_at # keep_due_at)}

\* _collect_recipients: the active members of the org.
_collect_recipients == recipients

\* queue_reminders, line 145: compute_next_due(frequency, anchor_type,
\* anchor_value, *, last_completion, reference_time) is called with two
\* positional arguments and the keyword base_time, so Python raises
\* TypeError before the body of compute_next_due runs.
TypeErr == -3
QueueNextDueCall(req, t) == TypeErr

OpenRequirements ==
    {r \in RequirementIds : requirements[r].exists /\ requirements[r].status = "OPEN"}

Target(target_type, target_id, due_at) ==
    [target_type |-> target_type, target_id |-> target_id, due_at |-> due_at]

\* queue_reminders, lines 144-154: the requirements that reach _upsert_job.
RequirementTargets(t) ==
    {Target("requirement", r, QueueNextDueCall(requirements[r], t)) :
        r \in {q \in OpenRequirements : QueueNextDueCall(requirements[q], t) # NULL}}

\* queue_reminders, lines 197-201 and 246-250.
PermitTargets(t) ==
    {Target("permit", p, permits[p].expires_at) :
        p \in {q \in PermitIds : /\ permits[q].exists
                                 /\ permits[q].expires_at # NULL
                                 /\ permits[q].expires_at > t}}

CertTargets(t) ==
    {Target("training_cert", c, certs[c].expires_at) :
        c \in {q \in CertIds : /\ certs[q].exists
                               /\ certs[q].expires_at # NULL
                               /\ certs[q].expires_at > t}}

\* The targets of one pass; none when the org has no recipient (lines 150-152).
QueueTargets(t) ==
    IF _collect_recipients = {} THEN {}
    ELSE RequirementTargets(t) \cup PermitTargets(t) \cup CertTargets(t)

\* One _upsert_job call that gets past the early return.
QueueWork(t) ==
    {w \in {[target |-> tg, email |-> e, offset |-> o,
             run_at |-> RunAt(tg.due_at, o, t)] :
                tg \in QueueTargets(t), e \in _collect_recipients,
                o \in REMINDER_OFFSETS} :
        w.run_at # NULL}

WorkExisting(tbl, w, locked) ==
    ExistingRows(tbl, w.target.target_type, w.target.target_id, w.target.due_at,
                 w.offset, w.email, locked)

WorkKey(w) ==
    <<w.target.target_type, w.target.target_id, w.email, w.offset, w.target.due_at>>

WorkNewJob(tbl, w) ==
    NewJob(FreshId(WorkKey(w), tbl), w.target.target_type, w.target.target_id,
           w.target.due_at, w.offset, w.email, w.run_at)

ScheduledEvent(w) ==
    [type |-> "reminder_scheduled", target_type |-> w.target.target_type,
     target_id |-> w.target.target_id, recipient |-> w.email,
     offset_days |-> w.offset, at |-> w.run_at, due_at |-> w.target.due_at]


\* --------------------------------------------------------- dispatch side
\* The claim query without skip_locked: rows other transactions hold are
\* returned as well.
EligibleIgnoringLocks(tbl, t, locked) ==
    {j \in tbl : j.status = "PENDING" /\ j.run_at <= t}

\* The claim query without the status filter of line 404.
EligibleAnyStatus(tbl, t, locked) ==
    {j \in tbl : j.run_at <= t /\ j.id \notin locked}

\* The claim query without the run_at filter of line 405.
EligibleBeforeRunAt(tbl, t, locked) ==
    {j \in tbl : j.status = "PENDING" /\ j.id \notin locked}

\* dispatch_reminders, lines 401-411: the rows the SELECT may return.
Eligible(tbl, t, locked) ==
    {j \in tbl : j.status = "PENDING" /\ j.run_at <= t /\ j.id \notin locked}

Min(a, b) == IF a <= b THEN a ELSE b

\* ORDER BY run_at ASC LIMIT batch_size: every set the database may return
\* (rows of equal run_at come in any order).
ClaimChoices(tbl, t, batch_size, locked) ==
    LET el == Eligible(tbl, t, locked) IN
    {S \in SUBSET el :
        /\ Cardinality(S) = Min(batch_size, Cardinality(el))
        /\ \A a \in S, b \in el \ S : a.run_at <= b.run_at}

\* dispatch_reminders, lines 428-435: db.get of the target row.
TargetExists(j) ==
    CASE j.target_type = "requirement" -> requirements[j.target_id].exists
      [] j.target_type = "permit" -> permits[j.target_id].exists
      [] OTHER -> certs[j.target_id].exists

\* dispatch_reminders, lines 437-446.
OnTargetMissing(j, t) ==
    [j EXCEPT !.status = "FAILED", !.last_attempt_at = t,
              !.last_error = "Target missing"]

\* The success branch without line 467: the delivered job stays PENDING.
OnSendSuccessStaysPending(j, t) ==
    [j EXCEPT !.attempts = j.attempts + 1, !.last_attempt_at = t,
              !.last_error = NoError]

\* dispatch_reminders, lines 466-470.
OnSendSuccess(j, t) ==
    [j EXCEPT !.status = "SENT", !.attempts = j.attempts + 1,
              !.last_attempt_at = t, !.last_error = NoError]

\* The failure branch with "attempts > 3" in place of line 494.
OnSendFailureOneMore(j, t) ==
    LET k == [j EXCEPT !.attempts = j.attempts + 1, !.last_attempt_at = t,
                       !.last_error = "send failed"]
    IN  IF k.attempts > MaxAttempts
        THEN [k EXCEPT !.status = "FAILED"]
        ELSE [k EXCEPT !.run_at = t + RetryDelay]

\* dispatch_reminders, lines 489-498.
OnSendFailure(j, t) ==
    LET k == [j EXCEPT !.attempts = j.attempts + 1, !.last_attempt_at = t,
                       !.last_error = "send failed"]
    IN  IF k.attempts >= MaxAttempts
        THEN [k EXCEPT !.status = "FAILED"]
        ELSE [k EXCEPT !.run_at = t + RetryDelay]

\* The loop body without the "target is None" branch of lines 437-446.
DispatchOutcomeNoLookup(target_exists, send_raises) ==
    IF send_raises THEN "send_failed" ELSE "sent"

\* What the loop body does with one claimed job: "missing" skips the send,
\* otherwise client.send is invoked and returns or raises.
DispatchOutcome(target_exists, send_raises) ==
    IF ~target_exists THEN "missing"
    ELSE IF send_raises THEN "send_failed"
    ELSE "sent"

\* dispatch_reminders, lines 465-498: client.send returned, lines 467-471
\* ran, record_reminder_sent raised inside the try block and the except
\* branch ran on the job.
OnMetricsFailure(j, t) ==
    [OnSendFailure(OnSendSuccess(j, t), t) EXCEPT !.last_error = "metrics failed"]

\* "metrics_failed": the mail went out and record_reminder_sent raised.
ProcessJob(j, t, outcome) ==
    CASE outcome = "missing" -> OnTargetMissing(j, t)
      [] outcome = "sent" -> OnSendSuccess(j, t)
      [] outcome = "metrics_failed" -> OnMetricsFailure(j, t)
      [] OTHER -> OnSendFailure(j, t)

\* record_reminder_failed is called for a missing target (line 444) and for
\* the failure that exhausts the attempts (line 496).
CountsAsFailedMetric(j, t, outcome) ==
    \/ outcome = "missing"
    \/ outcome = "send_failed" /\ OnSendFailure(j, t).status = "FAILED"
    \/ outcome = "metrics_failed" /\ OnMetricsFailure(j, t).status = "FAILED"

SentEvent(j, t) ==
    [type |-> "reminder_sent", target_type |-> j.target_type,
     target_id |-> j.target_id, recipient |-> j.recipient_email,
     offset_days |-> j.reminder_offset_days, at |-> t, due_at |-> j.target_due_at]


\* ------------------------------------------------------------------ state
NoAnchor == [date |-> NULL, interval |-> NULL]

\* attributes["archive"] of a requirement: state is "none" while the key is
\* absent, previous_status is "NONE" while none is recorded.
NoArchive == [state |-> "none", previous_status |-> "NONE"]

NoRequirement ==
    [exists |-> FALSE, status |-> "OPEN", frequency |-> NoFrequency,
     anchor_type |-> NoAnchorType, anchor_value |-> NoAnchor,
     due_date |-> NULL, next_due |-> NULL, completed_at |-> NULL,
     archive |-> NoArchive]

NoPermit == [exists |-> FALSE, expires_at |-> NULL]

\* op is "queue", "requeue" (a queue pass right after a queue pass),
\* "dispatch" or "other"; outcome is "ok" or the exception raised.
Call(op, outcome, scheduled, sent, failed, sends) ==
    [op |-> op, outcome |-> outcome, scheduled |-> scheduled, sent |-> sent,
     failed |-> failed, sends |-> sends]

Other == Call("other", "ok", 0, 0, 0, {})

\* A worker between two passes: no session, no transaction.
Idle ==
    [pc |-> "idle", kind |-> "none", t |-> 0, phase |-> "none", recips |-> {},
     todo |-> {}, work |-> <<>>, deleted |-> {}, updated |-> {}, inserted |-> {},
     locks |-> {}, claimed |-> {}, sends |-> {}, newEvents |-> EmptyBag,
     scheduled |-> 0, sent |-> 0, failed |-> 0, failedMetric |-> 0,
     rec |-> "none", holdsMetrics |-> FALSE, waiting |-> FALSE]

\* The labels of _bucket_for_delta.
Buckets == {"<1d", "1-7d", "7-30d", ">=30d"}

EmptyHistogram == [b \in Buckets |-> 0]

\* exists: the org has its OrgRequirementMetrics row.  Of its columns the
\* reminders_*, overdue_completion_* and post_reminder_completion_* ones
\* are kept.
NoMetricsRow ==
    [exists |-> FALSE, reminders_scheduled_total |-> 0, reminders_sent_total |-> 0,
     reminders_failed_total |-> 0,
     overdue_completion_total |-> 0, overdue_completion_histogram |-> EmptyHistogram,
     post_reminder_completion_total |-> 0,
     post_reminder_completion_histogram |-> EmptyHistogram]

\* fn names the function, returned tells whether the call has been made.
NoCall ==
    [fn |-> "none", returned |-> FALSE, frequency |-> NoFrequency,
     anchor_type |-> NoAnchorType, anchor_value |-> NoAnchor,
     last_completion |-> NULL, reference_time |-> 0, base |-> 0, months |-> 0,
     result |-> NULL]

Init ==
    /\ sched = NoCall
    /\ now = 0
    /\ requirements = [r \in RequirementIds |-> NoRequirement]
    /\ permits = [p \in PermitIds |-> NoPermit]
    /\ certs = [c \in CertIds |-> NoPermit]
    /\ recipients = {}
    /\ jobs = {}
    /\ events = EmptyBag
    /\ metrics = NoMetricsRow
    /\ outbox = EmptyBag
    /\ last = Other
    /\ tx = [w \in Workers |-> Idle]

JobVars == <<jobs, events, metrics>>

\* ------------------------------------------------------------ environment
TicksUsed(t) == (t \div Day) + ((t % Day) \div RetryDelay)

\* Time passes between two operations.
Tick(d) ==
    /\ TicksUsed(now) < MaxTicks
    /\ now' = now + d
    /\ last' = Other
    /\ UNCHANGED <<sched, requirements, permits, certs, recipients, JobVars, outbox, tx>>

\* AuthService.ensure_primary_membership: a first-time user gets a new org,
\* created with its metrics row.
ensure_primary_membership(e) ==
    /\ recipients = {}
    /\ ~metrics.exists
    /\ recipients' = {e}
    /\ metrics' = [metrics EXCEPT !.exists = TRUE]
    /\ last' = Other
    /\ UNCHANGED <<now, sched, requirements, permits, certs, jobs, events, outbox, tx>>

\* seed.py seed_users: an active member joins the seeded org, which has no
\* metrics row until something is counted.
seed_users(e) ==
    /\ e \notin recipients
    /\ recipients' = recipients \cup {e}
    /\ last' = Other
    /\ UNCHANGED <<now, sched, requirements, permits, certs, JobVars, outbox, tx>>

\* routers/permits.py upload_permit: a new permits row.
upload_permit(p, expires_at) ==
    /\ ~permits[p].exists
    /\ permits' = [permits EXCEPT ![p] = [exists |-> TRUE, expires_at |-> expires_at]]
    /\ last' = Other
    /\ UNCHANGED <<now, sched, requirements, certs, recipients, JobVars, outbox, tx>>

\* seed.py seed_permits: get or create the row, then overwrite expires_at.
seed_permits(p, expires_at) ==
    /\ permits[p] # [exists |-> TRUE, expires_at |-> expires_at]
    /\ permits' = [permits EXCEPT ![p] = [exists |-> TRUE, expires_at |-> expires_at]]
    /\ last' = Other
    /\ UNCHANGED <<now, sched, requirements, certs, recipients, JobVars, outbox, tx>>

\* routers/training.py upload_training_cert: a new training_certs row.
upload_training_cert(c, expires_at) ==
    /\ ~certs[c].exists
    /\ certs' = [certs EXCEPT ![c] = [exists |-> TRUE, expires_at |-> expires_at]]
    /\ last' = Other
    /\ UNCHANGED <<now, sched, requirements, permits, recipients, JobVars, outbox, tx>>

\* seed.py seed_training: get or create the row, then overwrite expires_at.
seed_training(c, expires_at) ==
    /\ certs[c] # [exists |-> TRUE, expires_at |-> expires_at]
    /\ certs' = [certs EXCEPT ![c] = [exists |-> TRUE, expires_at |-> expires_at]]
    /\ last' = Other
    /\ UNCHANGED <<now, sched, requirements, permits, recipients, JobVars, outbox, tx>>

\* reminder_jobs.target_id carries no foreign key: the target row can be
\* deleted (directly, or with its document) while its jobs stay.
delete_requirement(id) ==
    /\ requirements[id].exists
    /\ requirements' = [requirements EXCEPT ![id] = NoRequirement]
    /\ last' = Other
    /\ UNCHANGED <<now, sched, permits, certs, recipients, JobVars, outbox, tx>>

delete_permit(id) ==
    /\ permits[id].exists
    /\ permits' = [permits EXCEPT ![id] = NoPermit]
    /\ last' = Other
    /\ UNCHANGED <<now, sched, requirements, certs, recipients, JobVars, outbox, tx>>

delete_training_cert(id) ==
    /\ certs[id].exists
    /\ certs' = [certs EXCEPT ![id] = NoPermit]
    /\ last' = Other
    /\ UNCHANGED <<now, sched, requirements, permits, recipients, JobVars, outbox, tx>>


\* ----------------------------------------------------------- requirements
OrNull(v) == IF v = ERR THEN NULL ELSE v

Recurring(frequency) == frequency \notin {NoFrequency, "ONE_TIME", "BEFORE_EACH_USE"}

\* routers/documents.py, lines 819-897: a requirement is created from an
\* extracted draft that names no anchor type; triage marks it PENDING_REVIEW.
create_requirement(r, frequency, draft_due, triage) ==
    LET anchor_type == IF draft_due # NULL THEN "CUSTOM_DATE" ELSE "UPLOAD_DATE"
        anchor_value == [date |-> IF draft_due # NULL THEN draft_due ELSE now,
                         interval |-> NULL]
        next_due == OrNull(compute_next_due(frequency, anchor_type, anchor_value, NULL, now))
        due_date == IF draft_due = NULL THEN next_due ELSE draft_due
        flagged == triage \/ (Recurring(frequency) /\ due_date = NULL)
    IN  /\ ~requirements[r].exists
        /\ requirements' = [requirements EXCEPT ![r] =
              [exists |-> TRUE,
               status |-> IF flagged THEN "PENDING_REVIEW" ELSE "OPEN",
               frequency |-> frequency, anchor_type |-> anchor_type,
               anchor_value |-> anchor_value, due_date |-> due_date,
               next_due |-> next_due, completed_at |-> NULL,
               archive |-> NoArchive]]
        /\ last' = Other
        /\ UNCHANGED <<now, sched, permits, certs, recipients, JobVars, outbox, tx>>

\* A completion that always leaves the requirement READY with the next due
\* date it was given.
MarkCompleteKeepsReady(req, timestamp) ==
    [req EXCEPT !.status = "READY", !.completed_at = timestamp]

\* A completion that computes the next due date without writing the
\* completion time into the anchor payload.
MarkCompleteWithoutPin(req, timestamp) ==
    [req EXCEPT !.completed_at = timestamp,
                !.next_due = OrNull(compute_next_due(req.frequency, req.anchor_type,
                                                     req.anchor_value, timestamp, timestamp)),
                !.due_date = OrNull(compute_next_due(req.frequency, req.anchor_type,
                                                     req.anchor_value, timestamp, timestamp)),
                !.status = "READY"]

\* Requirement.mark_complete: the row after a completion at timestamp.
mark_complete(req, timestamp) ==
    LET anchor_value ==
            IF req.anchor_type = "FIRST_COMPLETION" /\ req.anchor_value.date = NULL
            THEN [req.anchor_value EXCEPT !.date = timestamp]
            ELSE req.anchor_value
        next_due == OrNull(compute_next_due(req.frequency, req.anchor_type,
                                            anchor_value, timestamp, timestamp))
        base == [req EXCEPT !.anchor_value = anchor_value, !.completed_at = timestamp]
    IN  IF req.frequency \in {NoFrequency, "ONE_TIME"}
        THEN [base EXCEPT !.status = "DONE", !.next_due = NULL, !.due_date = NULL]
        ELSE [base EXCEPT !.next_due = next_due, !.due_date = next_due,
                          !.status = IF req.frequency = "BEFORE_EACH_USE" THEN "READY"
                                     ELSE IF next_due # NULL THEN "READY"
                                     ELSE "DONE"]

\* metrics.py _bucket_for_delta, delta in minutes.
_bucket_for_delta(delta) ==
    IF delta < Day THEN "<1d"
    ELSE IF delta < 7 * Day THEN "1-7d"
    ELSE IF delta < 30 * Day THEN "7-30d"
    ELSE ">=30d"

\* metrics.py record_overdue_completion on the row mark_complete has
\* updated: the metrics row after the call.
record_overdue_completion(m, req) ==
    IF req.completed_at = NULL \/ req.due_date = NULL THEN m
    ELSE IF req.completed_at <= req.due_date THEN m
    ELSE LET bucket == _bucket_for_delta(req.completed_at - req.due_date) IN
         [m EXCEPT !.exists = TRUE,
                   !.overdue_completion_total = @ + 1,
                   !.overdue_completion_histogram[bucket] = @ + 1]

\* The SENT reminder of the requirement that was attempted last.
LastSentReminder(tbl, r) ==
    {j \in tbl : /\ j.target_type = "requirement" /\ j.target_id = r
                 /\ j.status = "SENT"
                 /\ \A k \in tbl :
                       (k.target_type = "requirement" /\ k.target_id = r
                          /\ k.status = "SENT")
                         => k.last_attempt_at <= j.last_attempt_at}

\* metrics.py record_completion_after_reminder.
record_completion_after_reminder(m, r, req, tbl) ==
    IF req.completed_at = NULL \/ LastSentReminder(tbl, r) = {} THEN m
    ELSE LET sent_at == (CHOOSE j \in LastSentReminder(tbl, r) : TRUE).last_attempt_at IN
         IF sent_at > req.completed_at THEN m
         ELSE [m EXCEPT !.exists = TRUE,
                        !.post_reminder_completion_total = @ + 1,
                        !.post_reminder_completion_histogram[
                            _bucket_for_delta(req.completed_at - sent_at)] = @ + 1]

\* reminders.py handle_completion_metrics.
handle_completion_metrics(m, r, req, tbl) ==
    record_completion_after_reminder(record_overdue_completion(m, req), r, req, tbl)

\* routers/requirements.py complete_requirement.  mark_complete runs first,
\* then the metrics are recorded on the updated row and the transaction is
\* committed; an exception raised while recording (metrics_raises) ends in
\* db.rollback() and HTTP 500.  record_requirement_completed locks or
\* creates the org's metrics row.
complete_requirement(r, metrics_raises) ==
    LET done == mark_complete(requirements[r], now) IN
    /\ requirements[r].exists
    /\ requirements[r].status # "DONE"
    /\ IF metrics_raises
       THEN /\ last' = Call("complete", "HTTP 500", 0, 0, 0, {})
            /\ UNCHANGED <<requirements, metrics>>
       ELSE /\ requirements' = [requirements EXCEPT ![r] = done]
            /\ metrics' = [handle_completion_metrics(metrics, r, done, jobs)
                              EXCEPT !.exists = TRUE]
            /\ last' = Call("complete", "ok", 0, 0, 0, {})
    /\ UNCHANGED <<now, sched, permits, certs, recipients, jobs, events, outbox, tx>>

SetNoon(t) == (t - (t % Day)) + 12 * Hour

\* routers/requirements.py update_requirement: PATCH of due_date and status;
\* NULL / "NONE" stand for a field the payload leaves out.
update_requirement(r, due_date, status) ==
    LET req == requirements[r]
        withDue == IF due_date # NULL THEN [req EXCEPT !.due_date = SetNoon(due_date)]
                   ELSE req
        withStatus == IF status # "NONE" /\ status # req.status
                      THEN [withDue EXCEPT !.status = status]
                      ELSE withDue
    IN  /\ req.exists
        /\ withStatus # req
        /\ requirements' = [requirements EXCEPT ![r] = withStatus]
        /\ last' = Other
        /\ UNCHANGED <<now, sched, permits, certs, recipients, JobVars, outbox, tx>>

\* restore_requirement, lines 476-482, with "NONE" for no recorded status.
RestoredAsOpen(previous_status) == "OPEN"

\* restore_requirement, lines 476-482: the status a restore puts back.
RestoredStatus(previous_status) ==
    IF previous_status # "NONE" THEN previous_status ELSE "OPEN"

\* routers/requirements.py request_requirement_archive.
request_requirement_archive(r) ==
    LET req == requirements[r] IN
    /\ req.exists
    /\ IF req.archive.state = "archived"
       THEN /\ last' = Call("archive", "HTTP 409", 0, 0, 0, {})
            /\ UNCHANGED requirements
       ELSE /\ requirements' = [requirements EXCEPT ![r] =
                  [req EXCEPT !.archive = [state |-> "archived",
                                           previous_status |-> req.status],
                              !.status = "ARCHIVED"]]
            /\ last' = Call("archive", "ok", 0, 0, 0, {})
    /\ UNCHANGED <<now, sched, permits, certs, recipients, JobVars, outbox, tx>>

\* routers/requirements.py restore_requirement.
restore_requirement(r) ==
    LET req == requirements[r] IN
    /\ req.exists
    /\ IF req.archive.state # "archived"
       THEN /\ last' = Call("restore", "HTTP 400", 0, 0, 0, {})
            /\ UNCHANGED requirements
       ELSE /\ requirements' = [requirements EXCEPT ![r] =
                  [req EXCEPT !.archive.state = "restored",
                              !.status = RestoredStatus(req.archive.previous_status)]]
            /\ last' = Call("restore", "ok", 0, 0, 0, {})
    /\ UNCHANGED <<now, sched, permits, certs, recipients, JobVars, outbox, tx>>

\* routers/requirements.py bulk_triage_requirements for one selected
\* requirement.  NoFrequency / NoAnchorType stand for a field the payload
\* leaves out, anchor_given says whether the payload carries anchor_value
\* (an absent one is written as the empty payload when anchor_type is given),
\* "NONE" for no status.  A RecurrenceError of compute_next_due is not caught:
\* the request ends in HTTP 500 and nothing is committed.
bulk_triage_requirements(r, frequency, anchor_type, anchor_given, anchor_value, status) ==
    LET req == requirements[r]
        withFrequency == IF frequency # NoFrequency THEN [req EXCEPT !.frequency = frequency]
                         ELSE req
        withType == IF anchor_type # NoAnchorType
                    THEN [withFrequency EXCEPT !.anchor_type = anchor_type]
                    ELSE withFrequency
        withValue == IF anchor_given \/ anchor_type # NoAnchorType
                     THEN [withType EXCEPT !.anchor_value =
                              IF anchor_given THEN anchor_value ELSE NoAnchor]
                     ELSE withType
        next_due == compute_next_due(withValue.frequency, withValue.anchor_type,
                                     withValue.anchor_value, NULL,
                                     IF withValue.due_date # NULL THEN withValue.due_date
                                     ELSE now)
    IN  /\ req.exists
        /\ IF next_due = ERR
           THEN /\ last' = Call("triage", "HTTP 500", 0, 0, 0, {})
                /\ UNCHANGED requirements
           ELSE /\ requirements' = [requirements EXCEPT ![r] =
                      [withValue EXCEPT !.next_due = next_due,
                                        !.due_date = IF @ = NULL THEN next_due ELSE @,
                                        !.status = IF status # "NONE" THEN status
                                                   ELSE "READY"]]
                /\ last' = Call("triage", "ok", 0, 0, 0, {})
        /\ UNCHANGED <<now, sched, permits, certs, recipients, JobVars, outbox, tx>>

\* ------------------------------------------------------- queue_reminders
\* The pass as one transaction: run_queue_job commits what queue_reminders
\* did, or rolls everything back when it raises.
QueueRaisesTypeError(t) ==
    \E r \in OpenRequirements : QueueNextDueCall(requirements[r], t) = TypeErr

QueueStale(tbl, t) ==
    UNION {StaleJobs(tbl, tg.target_type, tg.target_id, tg.due_at) : tg \in QueueTargets(t)}

QueueFound(tbl, t) == {w \in QueueWork(t) : WorkExisting(tbl, w, {}) # {}}

QueueRefreshed(tbl, t) ==
    {IF \E w \in QueueFound(tbl, t) : j \in WorkExisting(tbl, w, {})
     THEN RefreshExisting(j, (CHOOSE w \in QueueFound(tbl, t) :
                                 j \in WorkExisting(tbl, w, {})).run_at)
     ELSE j : j \in tbl}

QueueNewRows(tbl, t) ==
    {WorkNewJob(tbl, w) : w \in QueueWork(t) \ QueueFound(tbl, t)}

queue_reminders(t) ==
    LET kept == jobs \ QueueStale(jobs, t)
        refreshed == QueueRefreshed(kept, t)
        created == QueueNewRows(kept, t)
        fresh == QueueWork(t) \ QueueFound(kept, t)
        outcome ==
            IF QueueRaisesTypeError(t) THEN "TypeError"
            ELSE IF \E w \in QueueWork(t) : Cardinality(WorkExisting(kept, w, {})) > 1
            THEN "MultipleResultsFound"
            ELSE IF UniqueViolations(refreshed, created) # {} THEN "IntegrityError"
            ELSE "ok"
        op == IF last.op \in {"queue", "requeue"} THEN "requeue" ELSE "queue"
    IN  /\ UNCHANGED <<now, sched, permits, certs, recipients, outbox, tx>>
        /\ IF outcome = "ok"
           THEN /\ metrics.reminders_scheduled_total + Cardinality(created) <= MaxScheduled
                /\ jobs' = refreshed \cup created
                /\ events' = events (+) SetToBag({ScheduledEvent(w) : w \in fresh})
                /\ metrics' = [metrics EXCEPT
                                  !.exists = @ \/ created # {},
                                  !.reminders_scheduled_total = @ + Cardinality(created)]
                /\ requirements' =
                      [r \in RequirementIds |->
                          IF r \in OpenRequirements
                          THEN [requirements[r] EXCEPT
                                   !.next_due = QueueNextDueCall(requirements[r], t)]
                          ELSE requirements[r]]
                /\ last' = Call(op, "ok", Cardinality(created), 0, 0, {})
           ELSE /\ last' = Call(op, outcome, 0, 0, 0, {})
                /\ UNCHANGED <<requirements, JobVars>>

\* ---------------------------------------------------- dispatch_reminders
\* The pass as one transaction.  raising: the jobs for which client.send
\* raises; metrics_raising: the delivered jobs for which record_reminder_sent
\* raises.  Such an exception is caught by the except branch of line 489.
\* When it has left the session unusable (session_lost) the pass dies at its
\* next statement, or at the commit, and run_dispatch_job rolls everything
\* back; the mails up to the job that failed have gone out.
dispatch_reminders(t, batch_size, claimed, raising, metrics_raising, session_lost) ==
    LET sendOutcome == [j \in claimed |->
                          DispatchOutcome(TargetExists(j), j.id \in raising)]
        outcomeOf == [j \in claimed |->
                        IF sendOutcome[j] = "sent" /\ j.id \in metrics_raising
                        THEN "metrics_failed" ELSE sendOutcome[j]]
        sent == {j \in claimed : outcomeOf[j] = "sent"}
        delivered == {j \in claimed : sendOutcome[j] = "sent"}
        tried == {j \in claimed : outcomeOf[j] # "missing"}
        failedMetric == {j \in claimed : CountsAsFailedMetric(j, t, outcomeOf[j])}
        broken == {j \in claimed : outcomeOf[j] = "metrics_failed"}
        before == {j \in claimed : \E f \in broken :
                      \A g \in broken : f.run_at <= g.run_at /\ j.run_at <= f.run_at}
    IN  /\ claimed \in ClaimChoices(jobs, t, batch_size, {})
        /\ raising \subseteq {j.id : j \in claimed}
        /\ metrics_raising \subseteq {j.id : j \in delivered}
        /\ session_lost => metrics_raising # {}
        /\ IF session_lost
           THEN /\ BagCardinality(outbox) + Cardinality(delivered \cap before) <= MaxOutbox
                /\ outbox' = outbox (+) SetToBag({JobKey(j) : j \in delivered \cap before})
                /\ last' = Call("dispatch", "PendingRollbackError", 0, 0, 0,
                                {j.id : j \in tried \cap before})
                /\ UNCHANGED JobVars
           ELSE /\ metrics.reminders_failed_total + Cardinality(failedMetric)
                      <= MaxFailedTotal
                /\ jobs' = (jobs \ claimed)
                              \cup {ProcessJob(j, t, outcomeOf[j]) : j \in claimed}
                /\ events' = events (+) SetToBag({SentEvent(j, t) : j \in sent})
                /\ metrics' = [metrics EXCEPT
                                  !.exists = @ \/ sent # {} \/ failedMetric # {},
                                  !.reminders_sent_total = @ + Cardinality(sent),
                                  !.reminders_failed_total = @ + Cardinality(failedMetric)]
                /\ outbox' = outbox (+) SetToBag({JobKey(j) : j \in delivered})
                /\ last' = Call("dispatch", "ok", 0, Cardinality(delivered),
                                Cardinality(claimed \ sent), {j.id : j \in tried})
        /\ UNCHANGED <<now, sched, requirements, permits, certs, recipients, tx>>

\* ------------------------------------------- passes as open transactions
\* Two worker processes run run_queue_job and run_dispatch_job at once, each
\* in its own session and PostgreSQL transaction (READ COMMITTED).  A
\* statement sees the committed table; rows another transaction has locked,
\* updated or deleted stay locked until that transaction ends; a session
\* (autoflush off) sends its pending INSERTs and UPDATEs at commit.

\* REMINDER_OFFSETS in the order the loops walk it.
OffsetOrder == <<30, 7, 1>>

\* The rows of _collect_recipients in the order the database returns them.
RECURSIVE RecipientOrder(_)
RecipientOrder(S) ==
    IF S = {} THEN <<>>
    ELSE LET e == CHOOSE x \in S : TRUE IN <<e>> \o RecipientOrder(S \ {e})

RECURSIVE Concat(_)
Concat(ss) == IF ss = <<>> THEN <<>> ELSE Head(ss) \o Concat(Tail(ss))

WorkItem(tg, e, o, t) ==
    [target |-> tg, email |-> e, offset |-> o, run_at |-> RunAt(tg.due_at, o, t)]

\* The _upsert_job calls of one target that get past the early return, in
\* loop order: recipients outside, offsets inside.
WorkSeq(tg, recips, t) ==
    LET es == RecipientOrder(recips)
        perRecipient(e) ==
            SelectSeq([i \in 1..Len(OffsetOrder) |-> WorkItem(tg, e, OffsetOrder[i], t)],
                      LAMBDA w : w.run_at # NULL)
    IN  Concat([i \in 1..Len(es) |-> perRecipient(es[i])])

Ids(rows) == {j.id : j \in rows}

LockedByOthers(w) == UNION {tx[v].locks : v \in Workers \ {w}}

AllInserted == UNION {tx[v].inserted : v \in Workers}

\* The reminder_jobs rows a statement of worker w finds in the database.
DbView(w) == {j \in jobs : j.id \notin tx[w].deleted}

\* _get_metrics_row, lines 63-68: the committed row is found.
MetricsRowExists == metrics.exists

\* Another transaction holds the row lock of with_for_update(nowait=False),
\* or the uncommitted INSERT of the row.
MetricsHeldByOther(w) == \E v \in Workers \ {w} : tx[v].holdsMetrics

\* queue_reminders, lines 246-250: the training certs are read when the
\* permits are done.
CertPhase(t, recips) == IF recips = {} THEN {} ELSE CertTargets(t)

\* Where the pass of record rec goes on after the statement it has finished.
Advance(rec) ==
    IF rec.kind = "dispatch"
    THEN [rec EXCEPT !.pc = IF Ids(rec.claimed) \subseteq Ids(rec.updated)
                             THEN "commit" ELSE "send"]
    ELSE IF rec.work # <<>> THEN [rec EXCEPT !.pc = "upsert"]
    ELSE IF rec.todo # {} THEN [rec EXCEPT !.pc = "stale"]
    ELSE IF rec.phase = "permits"
    THEN LET c == CertPhase(rec.t, rec.recips) IN
         [rec EXCEPT !.phase = "certs", !.todo = c,
                     !.pc = IF c = {} THEN "commit" ELSE "stale"]
    ELSE [rec EXCEPT !.pc = "commit"]

PassOp(rec) == IF rec.kind = "dispatch" THEN "dispatch" ELSE "queue"

\* session_scope: the pass raised exc; the session rolls back and closes.
Rollback(w, exc) ==
    /\ tx' = [tx EXCEPT ![w] = Idle]
    /\ last' = Call(PassOp(tx[w]), exc, 0, 0, 0, tx[w].sends)
    /\ UNCHANGED JobVars

\* run_queue_job up to the first _remove_stale_jobs: the session opens, the
\* OPEN requirements and the permits are read.
run_queue_job(w) ==
    LET targets == IF recipients = {} THEN {} ELSE PermitTargets(now)
        begun == [Idle EXCEPT !.kind = "queue", !.t = now, !.phase = "permits",
                              !.recips = recipients, !.todo = targets]
    IN  /\ tx[w].pc = "idle"
        /\ metrics.reminders_scheduled_total + Cardinality(QueueWork(now)) <= MaxScheduled
        /\ IF QueueRaisesTypeError(now)
           THEN tx' = tx /\ last' = Call("queue", "TypeError", 0, 0, 0, {})
           ELSE IF Advance(begun).pc = "commit"
           THEN tx' = tx /\ last' = Call("queue", "ok", 0, 0, 0, {})
           ELSE tx' = [tx EXCEPT ![w] = Advance(begun)] /\ last' = Other
        /\ UNCHANGED <<now, sched, requirements, permits, certs, recipients, JobVars, outbox>>

\* _remove_stale_jobs for the next target: the DELETE waits while another
\* transaction holds one of its rows.
_remove_stale_jobs(w, tg) ==
    LET me == tx[w]
        stale == StaleJobs(DbView(w), tg.target_type, tg.target_id, tg.due_at)
    IN  /\ me.pc = "stale"
        /\ tg \in me.todo
        /\ Ids(stale) \cap LockedByOthers(w) = {}
        /\ tx' = [tx EXCEPT ![w] =
                    Advance([me EXCEPT !.todo = @ \ {tg},
                                       !.deleted = @ \cup Ids(stale),
                                       !.locks = @ \cup Ids(stale),
                                       !.work = WorkSeq(tg, me.recips, me.t)])]
        /\ last' = Other
        /\ UNCHANGED <<now, sched, requirements, permits, certs, recipients, JobVars, outbox>>

\* One _upsert_job call: the lookup skips the rows other transactions hold;
\* a found row is locked and refreshed, otherwise a new row, its event and
\* the scheduled count are added to the session.
_upsert_job(w) ==
    LET me == tx[w]
        item == Head(me.work)
        found == WorkExisting(DbView(w), item, LockedByOthers(w))
        rest == [me EXCEPT !.work = Tail(@)]
    IN  /\ me.pc = "upsert"
        /\ IF Cardinality(found) > 1
           THEN Rollback(w, "MultipleResultsFound")
           ELSE /\ IF found # {}
                   THEN LET existing == CHOOSE j \in found : TRUE IN
                        tx' = [tx EXCEPT ![w] =
                                 Advance([rest EXCEPT
                                    !.locks = @ \cup {existing.id},
                                    !.updated = @ \cup {RefreshExisting(existing, item.run_at)}])]
                   ELSE tx' = [tx EXCEPT ![w] =
                                 [rest EXCEPT
                                    !.inserted = @ \cup {WorkNewJob(jobs \cup AllInserted, item)},
                                    !.newEvents = @ (+) SetToBag({ScheduledEvent(item)}),
                                    !.scheduled = @ + 1,
                                    !.pc = "record", !.rec = "scheduled"]]
                /\ last' = Other
                /\ UNCHANGED JobVars
        /\ UNCHANGED <<now, sched, requirements, permits, certs, recipients, outbox>>

\* record_reminder_* finds the org's row held by another transaction and the
\* row not committed yet: its own INSERT of the row waits for the holder.
metrics_insert_waits(w) ==
    /\ tx[w].pc = "record"
    /\ ~tx[w].waiting
    /\ MetricsHeldByOther(w)
    /\ ~MetricsRowExists
    /\ tx' = [tx EXCEPT ![w].waiting = TRUE]
    /\ last' = Other
    /\ UNCHANGED <<now, sched, requirements, permits, certs, recipients, JobVars, outbox>>

\* record_reminder_scheduled / _sent / _failed: _get_metrics_row locks the
\* org's row until the transaction ends.  An INSERT that waited for a holder
\* that committed the row fails on the primary key.
_get_metrics_row(w) ==
    LET me == tx[w] IN
    /\ me.pc = "record"
    /\ ~MetricsHeldByOther(w)
    /\ IF me.waiting /\ MetricsRowExists
       THEN Rollback(w, "IntegrityError")
       ELSE /\ tx' = [tx EXCEPT ![w] =
                        Advance([me EXCEPT !.holdsMetrics = TRUE, !.waiting = FALSE,
                                           !.rec = "none",
                                           !.failedMetric =
                                               IF me.rec = "failed" THEN @ + 1 ELSE @])]
            /\ last' = Other
            /\ UNCHANGED JobVars
    /\ UNCHANGED <<now, sched, requirements, permits, certs, recipients, outbox>>

\* run_dispatch_job up to the loop: the claim query locks the rows it
\* returns and skips the rows other transactions hold.
run_dispatch_job(w, batch_size, claimed) ==
    /\ tx[w].pc = "idle"
    /\ claimed \in ClaimChoices(jobs, now, batch_size, LockedByOthers(w))
    /\ IF claimed = {}
       THEN tx' = tx /\ last' = Call("dispatch", "ok", 0, 0, 0, {})
       ELSE /\ tx' = [tx EXCEPT ![w] =
                        [Idle EXCEPT !.pc = "send", !.kind = "dispatch", !.t = now,
                                     !.claimed = claimed, !.locks = Ids(claimed)]]
            /\ last' = Other
    /\ UNCHANGED <<now, sched, requirements, permits, certs, recipients, JobVars, outbox>>

\* The loop body for the claimed job of smallest run_at that is left.
send(w, j, raises) ==
    LET me == tx[w]
        left == {c \in me.claimed : c.id \notin Ids(me.updated)}
        outcome == DispatchOutcome(TargetExists(j), raises)
        counts == CountsAsFailedMetric(j, me.t, outcome)
        done == [me EXCEPT
                   !.updated = @ \cup {ProcessJob(j, me.t, outcome)},
                   !.sends = IF outcome = "missing" THEN @ ELSE @ \cup {j.id},
                   !.sent = IF outcome = "sent" THEN @ + 1 ELSE @,
                   !.failed = IF outcome = "sent" THEN @ ELSE @ + 1,
                   !.newEvents = IF outcome = "sent"
                                 THEN @ (+) SetToBag({SentEvent(j, me.t)}) ELSE @]
    IN  /\ me.pc = "send"
        /\ j \in left
        /\ \A c \in left : j.run_at <= c.run_at
        /\ outcome = "missing" => ~raises
        /\ counts => metrics.reminders_failed_total + me.failedMetric < MaxFailedTotal
        /\ outbox' = IF outcome = "sent" THEN outbox (+) SetToBag({JobKey(j)}) ELSE outbox
        /\ tx' = [tx EXCEPT ![w] =
                    IF outcome = "sent" THEN [done EXCEPT !.pc = "record", !.rec = "sent"]
                    ELSE IF counts THEN [done EXCEPT !.pc = "record", !.rec = "failed"]
                    ELSE Advance(done)]
        /\ last' = Other
        /\ UNCHANGED <<now, sched, requirements, permits, certs, recipients, JobVars>>

\* session_scope: session.commit() flushes the pending rows; a new row whose
\* key is in the table violates uq_reminder_jobs_target_offset and the pass
\* is rolled back.
session_commit(w) ==
    LET me == tx[w]
        base == {j \in jobs : j.id \notin me.deleted \cup Ids(me.updated)} \cup me.updated
    IN  /\ me.pc = "commit"
        /\ IF UniqueViolations(base, me.inserted) # {}
           THEN Rollback(w, "IntegrityError")
           ELSE /\ jobs' = base \cup me.inserted
                /\ events' = events (+) me.newEvents
                /\ metrics' = [metrics EXCEPT
                                  !.exists = @ \/ me.holdsMetrics,
                                  !.reminders_scheduled_total = @ + me.scheduled,
                                  !.reminders_sent_total = @ + me.sent,
                                  !.reminders_failed_total = @ + me.failedMetric]
                /\ tx' = [tx EXCEPT ![w] = Idle]
                /\ last' = Call(PassOp(me), "ok", me.scheduled, me.sent, me.failed, me.sends)
        /\ UNCHANGED <<now, sched, requirements, permits, certs, recipients, outbox>>

\* ---------------------------------------------------------- specification
\* The reminder life cycle of an org with one member, one permit and one
\* requirement: materializer passes, dispatch passes and the requests between.
Next ==
    \/ \E d \in TickSteps : Tick(d)
    \/ \E e \in Emails : ensure_primary_membership(e)
    \/ \E e \in Emails : seed_users(e)
    \/ \E p \in PermitIds, x \in PermitExpiries : upload_permit(p, x)
    \/ \E p \in PermitIds, x \in PermitExpiries : seed_permits(p, x)
    \/ \E r \in RequirementIds : delete_requirement(r)
    \/ \E p \in PermitIds : delete_permit(p)
    \/ \E r \in RequirementIds, f \in DraftFrequencies, d \in DraftDueDates,
          g \in {FALSE} : create_requirement(r, f, d, g)
    \/ \E r \in RequirementIds : complete_requirement(r, FALSE)
    \/ \E r \in RequirementIds, d \in {NULL}, st \in PatchStatuses :
          update_requirement(r, d, st)
    \/ queue_reminders(now)
    \/ \E b \in BatchSizes : \E claimed \in ClaimChoices(jobs, now, b, {}) :
          \E raising \in SUBSET {j.id : j \in claimed} :
             dispatch_reminders(now, b, claimed, raising, {}, FALSE)

Spec == Init /\ [][Next]_vars

\* The materializer alone, over permits, training certs and requirements of
\* an org with up to two members.
NextQueue ==
    \/ \E d \in TickSteps : Tick(d)
    \/ \E e \in QueueEmails : ensure_primary_membership(e)
    \/ \E e \in QueueEmails : seed_users(e)
    \/ \E p \in PermitIds, x \in PermitExpiries : upload_permit(p, x)
    \/ \E p \in PermitIds, x \in PermitExpiries : seed_permits(p, x)
    \/ \E c \in CertIds, x \in CertExpiries : upload_training_cert(c, x)
    \/ \E c \in CertIds, x \in CertExpiries : seed_training(c, x)
    \/ \E c \in CertIds : delete_training_cert(c)
    \/ \E r \in RequirementIds, f \in DraftFrequencies, d \in DraftDueDates,
          g \in {FALSE} : create_requirement(r, f, d, g)
    \/ \E r \in RequirementIds : complete_requirement(r, FALSE)
    \/ queue_reminders(now)

SpecQueue == Init /\ [][NextQueue]_vars

\* Two workers whose passes overlap at one reference time, over one permit
\* of an org with up to two members and no requirement.
NextTx ==
    \/ \E e \in QueueEmails : ensure_primary_membership(e)
    \/ \E e \in QueueEmails : seed_users(e)
    \/ \E p \in PermitIds, x \in TxPermitExpiries : upload_permit(p, x)
    \/ \E w \in Workers : run_queue_job(w)
    \/ \E w \in Workers : \E tg \in tx[w].todo : _remove_stale_jobs(w, tg)
    \/ \E w \in Workers : _upsert_job(w)
    \/ \E w \in Workers : metrics_insert_waits(w)
    \/ \E w \in Workers : _get_metrics_row(w)
    \/ \E w \in Workers, b \in BatchSizes :
          \E claimed \in ClaimChoices(jobs, now, b, LockedByOthers(w)) :
             run_dispatch_job(w, b, claimed)
    \/ \E w \in Workers : \E j \in tx[w].claimed, raises \in BOOLEAN : send(w, j, raises)
    \/ \E w \in Workers : session_commit(w)

SpecTx == Init /\ [][NextTx]_vars

\* The dispatch worker, statement by statement, over the jobs of one permit
\* of an org with up to two members, while time passes and materializer
\* passes run between its passes.
DispatchWorker == "w1"

NextDispatch ==
    \/ \E d \in TickSteps : Tick(d)
    \/ \E e \in QueueEmails : seed_users(e)
    \/ \E p \in PermitIds, x \in TxPermitExpiries : upload_permit(p, x)
    \/ tx[DispatchWorker].pc = "idle" /\ queue_reminders(now)
    \/ \E b \in BatchSizes :
          \E claimed \in ClaimChoices(jobs, now, b, LockedByOthers(DispatchWorker)) :
             run_dispatch_job(DispatchWorker, b, claimed)
    \/ \E j \in tx[DispatchWorker].claimed, raises \in BOOLEAN :
          send(DispatchWorker, j, raises)
    \/ _get_metrics_row(DispatchWorker)
    \/ session_commit(DispatchWorker)

SpecDispatch == Init /\ [][NextDispatch]_vars

\* Completions of one requirement of any cadence, on time and late; the
\* recording of metrics may fail.
NextComplete ==
    \/ \E d \in CompleteTickSteps : Tick(d)
    \/ \E r \in RequirementIds, f \in CompleteFrequencies, d \in CompleteDueDates,
          g \in BOOLEAN : create_requirement(r, f, d, g)
    \/ \E r \in RequirementIds, m \in BOOLEAN : complete_requirement(r, m)
    \/ \E r \in RequirementIds, d \in {NULL}, st \in PatchStatuses :
          update_requirement(r, d, st)

SpecComplete == Init /\ [][NextComplete]_vars

\* Requirements whose anchor is decided in triage and which are completed
\* more than once.
TriageFrequencies == {NoFrequency, "WEEKLY", "MONTHLY"}

TriageAnchorTypes == {NoAnchorType, "FIRST_COMPLETION"}

TriageAnchorValues == {NoAnchor, [date |-> 2 * Day, interval |-> NULL],
                       [date |-> InvalidDate, interval |-> NULL]}

TriageTickSteps == {12 * Hour, Day, 30 * Day}

NextTriage ==
    \/ \E d \in TriageTickSteps : Tick(d)
    \/ \E r \in RequirementIds, d \in DraftDueDates \cup {NULL} :
          create_requirement(r, "WEEKLY", d, TRUE)
    \/ \E r \in RequirementIds, f \in TriageFrequencies, a \in TriageAnchorTypes,
          g \in BOOLEAN, v \in TriageAnchorValues, st \in {"NONE"} :
          bulk_triage_requirements(r, f, a, g, v, st)
    \/ \E r \in RequirementIds : complete_requirement(r, FALSE)

SpecTriage == Init /\ [][NextTriage]_vars

\* A requirement and a permit of an org with one member: the requirement is
\* completed or archived between the passes of the two worker jobs.
NextReminded ==
    \/ \E d \in TickSteps : Tick(d)
    \/ \E e \in Emails : seed_users(e)
    \/ \E p \in PermitIds, x \in TxPermitExpiries : upload_permit(p, x)
    \/ \E r \in RequirementIds, f \in DraftFrequencies, d \in DraftDueDates :
          create_requirement(r, f, d, FALSE)
    \/ \E r \in RequirementIds : complete_requirement(r, FALSE)
    \/ \E r \in RequirementIds : request_requirement_archive(r)
    \/ \E r \in RequirementIds : restore_requirement(r)
    \/ queue_reminders(now)
    \/ \E b \in BatchSizes : \E claimed \in ClaimChoices(jobs, now, b, {}) :
          \E raising \in SUBSET {j.id : j \in claimed} :
             dispatch_reminders(now, b, claimed, raising, {}, FALSE)

SpecReminded == Init /\ [][NextReminded]_vars

\* RequirementStatusEnum.
RequirementStatuses == {"OPEN", "REVIEW", "PENDING_REVIEW", "READY", "DONE", "ARCHIVED"}

ArchiveFrequencies == {NoFrequency, "WEEKLY"}

\* One requirement is created, patched to any status, completed, archived
\* and restored, in any order.
NextArchive ==
    \/ \E d \in CompleteTickSteps : Tick(d)
    \/ \E r \in RequirementIds, f \in ArchiveFrequencies, d \in {NULL}, g \in BOOLEAN :
          create_requirement(r, f, d, g)
    \/ \E r \in RequirementIds : complete_requirement(r, FALSE)
    \/ \E r \in RequirementIds, d \in {NULL}, st \in RequirementStatuses :
          update_requirement(r, d, st)
    \/ \E r \in RequirementIds : request_requirement_archive(r)
    \/ \E r \in RequirementIds : restore_requirement(r)

SpecArchive == Init /\ [][NextArchive]_vars

\* The passes over one permit and one requirement of an org with one member,
\* with the faults of the metrics recording and of the recurrence
\* configuration: record_reminder_sent may raise in a dispatch pass, the
\* recording may raise in a completion, and an EVERY_N_DAYS requirement
\* carries no interval.
NextFaults ==
    \/ \E d \in TickSteps : Tick(d)
    \/ \E e \in Emails : ensure_primary_membership(e)
    \/ \E p \in PermitIds, x \in TxPermitExpiries : upload_permit(p, x)
    \/ \E r \in RequirementIds, f \in FaultFrequencies, d \in {NULL}, g \in BOOLEAN :
          create_requirement(r, f, d, g)
    \/ \E r \in RequirementIds, m \in BOOLEAN : complete_requirement(r, m)
    \/ \E r \in RequirementIds, d \in {NULL}, st \in PatchStatuses :
          update_requirement(r, d, st)
    \/ queue_reminders(now)
    \/ \E b \in BatchSizes : \E claimed \in ClaimChoices(jobs, now, b, {}) :
          \E raising \in SUBSET {j.id : j \in claimed} :
             \E metrics_raising \in SUBSET ({j.id : j \in claimed} \ raising) :
                \E session_lost \in BOOLEAN :
                   dispatch_reminders(now, b, claimed, raising, metrics_raising,
                                      session_lost)

SpecFaults == Init /\ [][NextFaults]_vars

\* ------------------------------------------------- the recurrence resolver
Frequencies ==
    {NoFrequency, "ONE_TIME", "BEFORE_EACH_USE", "DAILY", "WEEKLY", "MONTHLY",
     "QUARTERLY", "ANNUAL", "EVERY_N_DAYS", "EVERY_N_WEEKS", "EVERY_N_MONTHS"}

AnchorTypes == {NoAnchorType, "UPLOAD_DATE", "CUSTOM_DATE", "FIRST_COMPLETION"}

\* Arguments of compute_next_due: anchors before, at and after the
\* completions and reference times, three of them 518 days, 512 days and one
\* minute less than 512 days before the last reference time; completions
\* before, at and after the reference times.
SchedAnchorDates ==
    {NULL, InvalidDate, At(2023, 1, 1, 0, 0), At(2023, 1, 7, 0, 0),
     At(2023, 1, 7, 0, 1), At(2023, 12, 15, 8, 0), At(2024, 1, 31, 9, 0),
     At(2024, 3, 10, 12, 0)}

SchedIntervals == {NULL, 0, 2}

SchedCompletions ==
    {NULL, At(2024, 1, 16, 12, 0), At(2024, 2, 1, 13, 30), At(2024, 3, 5, 0, 0),
     At(2024, 3, 10, 12, 0)}

SchedReferences ==
    {At(2024, 1, 31, 9, 0), At(2024, 2, 1, 13, 30), At(2024, 6, 2, 0, 0)}

\* Arguments of _add_months: days 28 to 31, leap and common years.
SchedBases ==
    {At(2024, 1, 31, 9, 0), At(2023, 1, 31, 0, 0), At(2024, 2, 29, 23, 59),
     At(2023, 12, 15, 8, 0), At(2023, 11, 30, 12, 0), At(2024, 10, 28, 6, 30)}

SchedMonths == 0 .. 14 \cup {24, 48}

ComputeCalls ==
    {[NoCall EXCEPT !.fn = "compute_next_due", !.frequency = f, !.anchor_type = a,
                    !.anchor_value = [date |-> d, interval |-> i],
                    !.last_completion = c, !.reference_time = t] :
        f \in Frequencies, a \in AnchorTypes, d \in SchedAnchorDates,
        i \in SchedIntervals, c \in SchedCompletions, t \in SchedReferences}

AddMonthsCalls ==
    {[NoCall EXCEPT !.fn = "_add_months", !.base = b, !.months = n] :
        b \in SchedBases, n \in SchedMonths}

\* The tables are empty; one call is about to be made.
InitSchedule ==
    /\ sched \in ComputeCalls \cup AddMonthsCalls
    /\ now = 0
    /\ requirements = [r \in RequirementIds |-> NoRequirement]
    /\ permits = [p \in PermitIds |-> NoPermit]
    /\ certs = [c \in CertIds |-> NoPermit]
    /\ recipients = {}
    /\ jobs = {}
    /\ events = EmptyBag
    /\ metrics = NoMetricsRow
    /\ outbox = EmptyBag
    /\ last = Other
    /\ tx = [w \in Workers |-> Idle]

Tables ==
    <<now, requirements, permits, certs, recipients, jobs, events, metrics,
      outbox, last, tx>>

call_compute_next_due ==
    /\ sched.fn = "compute_next_due"
    /\ ~sched.returned
    /\ sched' = [sched EXCEPT
                    !.returned = TRUE,
                    !.result = compute_next_due(sched.frequency, sched.anchor_type,
                                                sched.anchor_value, sched.last_completion,
                                                sched.reference_time)]
    /\ UNCHANGED Tables

call_add_months ==
    /\ sched.fn = "_add_months"
    /\ ~sched.returned
    /\ sched' = [sched EXCEPT !.returned = TRUE,
                              !.result = _add_months(sched.base, sched.months)]
    /\ UNCHANGED Tables

NextSchedule ==
    \/ call_compute_next_due
    \/ call_add_months

SpecSchedule == InitSchedule /\ [][NextSchedule]_vars

\* ------------------------------------------------------------- properties
QueueStep == last'.op \in {"queue", "requeue"}

DispatchStep == last'.op = "dispatch"

\* The row of tbl with primary key id.
RowsById(tbl, id) == {k \in tbl : k.id = id}

\* C1: in every reachable state the reminder_jobs table holds at most one row
\* per key (target_type, target_id, recipient_email, reminder_offset_days,
\* target_due_at).
C1_OneJobPerKey == \A a, b \in jobs : JobKey(a) = JobKey(b) => a = b

C1_ConstraintRejectedARow ==
    /\ last.op = "queue" /\ last.outcome = "IntegrityError"
    /\ Cardinality(jobs) = 2
    /\ \E j \in jobs : j.status = "SENT"

\* C2: while two queue_reminders passes overlap, the table never holds two
\* rows of one key, and no pass has added a row for a key for which the
\* table or the other pass already has a row.
C2_NoSecondInsert ==
    /\ \A a, b \in jobs : JobKey(a) = JobKey(b) => a.id = b.id
    /\ \A w \in Workers : \A r \in tx[w].inserted :
          \A j \in jobs \cup UNION {tx[v].inserted : v \in Workers \ {w}} :
             JobKey(j) # JobKey(r)

\* C3: two dispatch_reminders passes that overlap hold disjoint sets of
\* claimed jobs and hand disjoint sets of jobs to the email client.
C3_DisjointClaims ==
    \A w, v \in Workers :
       w # v => /\ Ids(tx[w].claimed) \cap Ids(tx[v].claimed) = {}
                /\ tx[w].sends \cap tx[v].sends = {}

C3_TwoDispatchersInFlight ==
    \E w, v \in Workers :
       /\ w # v
       /\ tx[w].kind = "dispatch" /\ tx[v].kind = "dispatch"
       /\ tx[w].sends # {} /\ tx[v].sends # {}

\* C4: a queue_reminders pass that directly follows another one, at the same
\* reference time and with no operation between, leaves the job rows as they
\* are (one row per key), reports no scheduled job, emits no
\* reminder_scheduled event and leaves the scheduled metric alone.
C4_QueueRerunIsIdempotent ==
    [][(last.op \in {"queue", "requeue"} /\ last'.op = "requeue")
         => /\ jobs' = jobs
            /\ events' = events
            /\ metrics' = metrics
            /\ last'.scheduled = 0
            /\ \A a, b \in jobs' : JobKey(a) = JobKey(b) => a = b]_vars

C4_RerunOverJobs ==
    /\ last.op = "requeue" /\ last.outcome = "ok"
    /\ \E j \in jobs : j.status = "PENDING"
    /\ QueueWork(now) # {}

\* C6: the send failure that follows two earlier failures of a job leaves it
\* FAILED with attempts = 3 and its run_at as it was, and the pass raises
\* reminders_failed_total by one for it.
C6_ThirdFailureIsTerminal ==
    [][DispatchStep =>
         \A j \in jobs : \A k \in RowsById(jobs', j.id) :
            (j.attempts = 2 /\ j.id \in last'.sends /\ k.status # "SENT")
               => /\ k.status = "FAILED"
                  /\ k.attempts = 3
                  /\ k.run_at = j.run_at
                  /\ metrics'.reminders_failed_total =
                        metrics.reminders_failed_total
                          + Cardinality({f \in jobs' \ jobs : f.status = "FAILED"})
                  /\ metrics'.reminders_failed_total > metrics.reminders_failed_total]_vars

C6_FailedAfterThreeAttempts ==
    /\ last.op = "dispatch"
    /\ \E j \in jobs : /\ j.status = "FAILED" /\ j.attempts = 3
                        /\ j.last_error = "send failed"
                        /\ j.last_attempt_at = now /\ j.id \in last.sends
    /\ metrics.reminders_failed_total = 1

\* C7: a dispatch pass that claims a job whose target row is gone sets it to
\* FAILED with last_error "Target missing", does not hand it to the email
\* client, and leaves run_at and attempts as they were.
C7_TargetMissingIsTerminal ==
    [][DispatchStep =>
         \A j \in jobs \ jobs' :
            ~TargetExists(j) =>
               /\ j.id \notin last'.sends
               /\ CopiesIn(JobKey(j), outbox') = CopiesIn(JobKey(j), outbox)
               /\ \A k \in RowsById(jobs', j.id) :
                     /\ k.status = "FAILED"
                     /\ k.last_error = "Target missing"
                     /\ k.run_at = j.run_at
                     /\ k.attempts = j.attempts]_vars

C7_FailedForMissingTarget ==
    /\ last.op = "dispatch"
    /\ \E j \in jobs : /\ j.status = "FAILED" /\ j.last_error = "Target missing"
                        /\ j.last_attempt_at = now
                        /\ ~TargetExists(j)

JobsOf(tbl, target_type, target_id) ==
    {j \in tbl : j.target_type = target_type /\ j.target_id = target_id}

\* C5: a queue_reminders pass that finds a permit with jobs of an occurrence
\* other than its present expires_at deletes the PENDING ones among them,
\* keeps the SENT and FAILED ones, and has a job of the present occurrence
\* for every recipient and every offset that is not missed.
C5_DueShiftReplacesPendingJobs ==
    [][QueueStep =>
         \A p \in PermitIds :
            LET d == permits[p].expires_at
                old == {j \in JobsOf(jobs, "permit", p) : j.target_due_at # d}
            IN  (permits[p].exists /\ d # NULL /\ d > now /\ recipients # {} /\ old # {})
                   => /\ \A j \in old : j.status = "PENDING" => RowsById(jobs', j.id) = {}
                      /\ \A j \in old : j.status # "PENDING" => j \in jobs'
                      /\ \A e \in recipients, o \in REMINDER_OFFSETS :
                            RunAt(d, o, now) # NULL
                               => \E k \in jobs' : JobKey(k) = <<"permit", p, e, o, d>>]_vars

\* C9: a queue_reminders pass over one OPEN weekly requirement due 7 days
\* after the reference time, for an org with one recipient and nothing else
\* to schedule, creates the jobs of offsets 7 and 1 with run_at = due minus
\* offset and no other, returns scheduled = 2, emits 2 reminder_scheduled
\* events and raises reminders_scheduled_total by 2.
C9_WeeklyRequirementGetsTwoJobs ==
    [][QueueStep =>
         \A r \in RequirementIds :
            LET req == requirements[r]
                due == now + 7 * Day
            IN  (/\ req.exists /\ req.status = "OPEN" /\ req.frequency = "WEEKLY"
                 /\ req.due_date = due
                 /\ Cardinality(recipients) = 1
                 /\ JobsOf(jobs, "requirement", r) = {}
                 /\ PermitTargets(now) \cup CertTargets(now) = {})
                   => /\ last'.scheduled = 2
                      /\ {<<j.reminder_offset_days, j.run_at, j.target_due_at>> :
                             j \in JobsOf(jobs', "requirement", r)}
                            = {<<7, due - 7 * Day, due>>, <<1, due - Day, due>>}
                      /\ BagCardinality(events') = BagCardinality(events) + 2
                      /\ metrics'.reminders_scheduled_total =
                            metrics.reminders_scheduled_total + 2]_vars

\* C10: after a queue_reminders pass every permit and training cert that
\* expires more than 30 days after the reference time has, for each
\* recipient, exactly one job per offset 30, 7 and 1, and the pass returns as
\* scheduled the number of rows it created.
C10_PermitsAndCertsGetAllOffsets ==
    [][QueueStep =>
         /\ \A tg \in PermitTargets(now) \cup CertTargets(now) :
               tg.due_at > now + 30 * Day
                  => \A e \in recipients, o \in REMINDER_OFFSETS :
                        Cardinality({k \in jobs' :
                           JobKey(k) = <<tg.target_type, tg.target_id, e, o, tg.due_at>>}) = 1
         /\ last'.scheduled = Cardinality({k \in jobs' : RowsById(jobs, k.id) = {}})]_vars

\* The rows of tbl in status SENT.
SentJobs(tbl) == {j \in tbl : j.status = "SENT"}

\* The number of reminder_sent rows in the events table b.
SentEvents(b) ==
    BagCardinality([e \in {x \in BagToSet(b) : x.type = "reminder_sent"} |-> b[e]])

Computed ==
    /\ sched.fn = "compute_next_due"
    /\ sched.returned
    /\ sched.result \notin {NULL, ERR}

\* The comparison point: last_completion if present, else reference_time.
ComparisonPoint ==
    IF sched.last_completion # NULL THEN sched.last_completion ELSE sched.reference_time

\* The payload carries a date that parses.
HasAnchorDate == sched.anchor_value.date \notin {NULL, InvalidDate}

\* The anchor datetime of the call: the payload's date or its fallback.
AnchorOfCall ==
    _derive_anchor_datetime(sched.anchor_type, sched.anchor_value,
                            sched.reference_time, sched.last_completion)

\* C12, as stated: for a cadence other than ONE_TIME and BEFORE_EACH_USE a
\* result R is strictly greater than the comparison point, or equals the
\* anchor date while that date is ahead of the comparison point; and when
\* last_completion is earlier than the anchor date, R is the anchor date.
C12_AfterComparisonPointOrAnchorAhead ==
    (Computed /\ Recurring(sched.frequency)) =>
        /\ \/ sched.result > ComparisonPoint
           \/ /\ HasAnchorDate
              /\ sched.result = sched.anchor_value.date
              /\ sched.anchor_value.date > ComparisonPoint
        /\ (HasAnchorDate /\ sched.last_completion # NULL
              /\ sched.last_completion < sched.anchor_value.date)
             => sched.result = sched.anchor_value.date

\* C12, amended: R is strictly greater than the comparison point, except
\* that a requirement never completed whose anchor datetime (the payload's
\* date, or the reference time when the payload has none) equals the
\* reference time gets R = reference_time; an anchor datetime ahead of the
\* comparison point is returned unadvanced, in particular when
\* last_completion is earlier than the anchor date.
C12_AfterComparisonPointOrAtReference ==
    (Computed /\ Recurring(sched.frequency)) =>
        /\ \/ sched.result > ComparisonPoint
           \/ /\ sched.last_completion = NULL
              /\ AnchorOfCall = sched.reference_time
              /\ sched.result = sched.reference_time
        /\ AnchorOfCall > ComparisonPoint => sched.result = AnchorOfCall
        /\ (HasAnchorDate /\ sched.last_completion # NULL
              /\ sched.last_completion < sched.anchor_value.date)
             => sched.result = sched.anchor_value.date

C12_CompletionBeforeAnchor ==
    /\ Computed
    /\ sched.frequency = "EVERY_N_MONTHS"
    /\ sched.last_completion = At(2024, 1, 16, 12, 0)
    /\ sched.anchor_value = [date |-> At(2024, 1, 31, 9, 0), interval |-> 2]
    /\ sched.result = At(2024, 1, 31, 9, 0)

\* The earliest result C13 allows for reference time T: T itself, or the
\* start of T's day for BEFORE_EACH_USE.
EarliestDue ==
    IF sched.frequency = "BEFORE_EACH_USE" THEN _start_of_day(sched.reference_time)
    ELSE sched.reference_time

\* C13, as stated: a non-null result of compute_next_due for reference time
\* T is >= T, or >= the start of T's day for BEFORE_EACH_USE, for every
\* cadence, anchor and completion history.
C13_NextDueNotBeforeReference == Computed => sched.result >= EarliestDue

\* C13, amended: the bound holds for every cadence other than ONE_TIME when
\* the requirement was never completed or last_completion is not earlier
\* than T (mark_complete passes last_completion = T); a ONE_TIME result is
\* the anchor datetime, wherever it lies.
C13_NextDueNotBeforeReferenceUnlessOneTime ==
    Computed =>
        /\ (sched.frequency # "ONE_TIME"
              /\ (sched.last_completion = NULL
                    \/ sched.last_completion >= sched.reference_time))
             => sched.result >= EarliestDue
        /\ sched.frequency = "ONE_TIME" => sched.result = AnchorOfCall

C13_AdvancedPastReference ==
    /\ Computed
    /\ sched.frequency = "MONTHLY"
    /\ sched.anchor_value.date = At(2023, 12, 15, 8, 0)
    /\ sched.last_completion = At(2024, 2, 1, 13, 30)
    /\ sched.reference_time = At(2024, 2, 1, 13, 30)
    /\ sched.result = At(2024, 2, 15, 8, 0)

\* C14: a completion that succeeds sets the status by the cadence: no
\* frequency or ONE_TIME gives DONE with next_due and due_date cleared,
\* BEFORE_EACH_USE gives READY with next_due recomputed from the completion,
\* any other cadence gives READY when a next due date was computed and DONE
\* when not; the requirement is never left OPEN.
CompletedAs(old, new) ==
    /\ new.status \in {"DONE", "READY"}
    /\ new.completed_at = now
    /\ old.frequency \in {NoFrequency, "ONE_TIME"}
          => new.status = "DONE" /\ new.next_due = NULL /\ new.due_date = NULL
    /\ old.frequency = "BEFORE_EACH_USE"
          => new.status = "READY" /\ new.next_due = _start_of_day(now + Day)
    /\ Recurring(old.frequency)
          => /\ new.next_due # NULL => new.status = "READY" /\ new.next_due > now
             /\ new.next_due = NULL => new.status = "DONE"

C14_CompletionStatusByCadence ==
    [][(last'.op = "complete" /\ last'.outcome = "ok")
          => \E r \in DOMAIN requirements :
                /\ requirements[r].status # "DONE"
                /\ CompletedAs(requirements[r], requirements'[r])
                /\ \A o \in DOMAIN requirements \ {r} :
                      requirements'[o] = requirements[o]]_vars

\* A cadence whose interval is missing has been completed: DONE, no next due.
C14_RecurringDoneWithoutNextDue ==
    \E r \in DOMAIN requirements :
        /\ last.op = "complete" /\ last.outcome = "ok"
        /\ requirements[r].frequency = "EVERY_N_DAYS"
        /\ requirements[r].status = "DONE"
        /\ requirements[r].completed_at = now
        /\ requirements[r].next_due = NULL

\* C15: a RecurrenceError of compute_next_due is caught by both callers: the
\* completion succeeds with next_due null, and a queue_reminders pass over an
\* OPEN requirement whose recurrence cannot be resolved skips it and goes on
\* to the end instead of aborting.
RaisesRecurrenceError(req, last_completion, reference_time) ==
    compute_next_due(req.frequency, req.anchor_type, req.anchor_value,
                     last_completion, reference_time) = ERR

CompletionCatchesRecurrenceError ==
    (last'.op = "complete" /\ last'.outcome = "ok")
       => \A r \in DOMAIN requirements :
             (/\ requirements[r].status # "DONE"
              /\ requirements'[r].completed_at = now
              /\ RaisesRecurrenceError(requirements'[r], now, now))
                => requirements'[r].next_due = NULL

QueueCatchesRecurrenceError ==
    (/\ last'.op \in {"queue", "requeue"}
     /\ \E r \in OpenRequirements :
           RaisesRecurrenceError(requirements[r], requirements[r].completed_at, now))
       => last'.outcome = "ok"

C15_RecurrenceErrorCaughtByBothCallers ==
    [][CompletionCatchesRecurrenceError /\ QueueCatchesRecurrenceError]_vars

\* C16: an exception raised while metrics are recorded never fails the
\* operation it belongs to: the completion still commits the status and
\* next_due, and a reminder that was delivered is still SENT and counted as
\* sent, with one attempt more, no error and no new run_at.
CompletionCommits == last'.op = "complete" => last'.outcome = "ok"

DeliveredIn(tbl, before, after) ==
    {j \in tbl : /\ j.status = "PENDING"
                 /\ CopiesIn(JobKey(j), after) > CopiesIn(JobKey(j), before)}

DeliveredStaysSent ==
    last'.op = "dispatch"
       => /\ last'.outcome = "ok"
          /\ last'.sent = Cardinality(DeliveredIn(jobs, outbox, outbox'))
          /\ \A j \in DeliveredIn(jobs, outbox, outbox') :
                [j EXCEPT !.status = "SENT", !.attempts = @ + 1,
                          !.last_attempt_at = now, !.last_error = NoError] \in jobs'

C16_MetricsFailureNeverFailsOperation ==
    [][CompletionCommits /\ DeliveredStaysSent]_vars

\* C17: a completion of a requirement that has a due date, made later than
\* that due date, raises the overdue-completion total by one and counts the
\* time elapsed since the due date in exactly one of the buckets <1d, 1-7d,
\* 7-30d, >=30d; a completion at or before the due date, or without one,
\* records nothing.
OverdueRecorded(due_date) ==
    IF due_date # NULL /\ now > due_date
    THEN /\ metrics'.overdue_completion_total = metrics.overdue_completion_total + 1
         /\ metrics'.overdue_completion_histogram =
               [metrics.overdue_completion_histogram
                   EXCEPT ![_bucket_for_delta(now - due_date)] = @ + 1]
    ELSE /\ metrics'.overdue_completion_total = metrics.overdue_completion_total
         /\ metrics'.overdue_completion_histogram = metrics.overdue_completion_histogram

C17_OverdueCompletionCounted ==
    [][(last'.op = "complete" /\ last'.outcome = "ok")
          => \A r \in DOMAIN requirements :
                (/\ requirements[r].exists
                 /\ requirements[r].status # "DONE"
                 /\ requirements'[r].completed_at = now)
                   => OverdueRecorded(requirements[r].due_date)]_vars

\* C18: for ONE_TIME, a call without a completion returns the anchor
\* timestamp of the payload, or the reference time when the payload has no
\* date; a call with any last_completion returns null, whatever the anchor
\* and the reference time.
OneTimeCall ==
    /\ sched.fn = "compute_next_due"
    /\ sched.returned
    /\ sched.frequency = "ONE_TIME"

C18_OneTimeAnchorThenNull ==
    OneTimeCall =>
        /\ sched.last_completion # NULL => sched.result = NULL
        /\ (sched.last_completion = NULL /\ HasAnchorDate)
              => sched.result = sched.anchor_value.date
        /\ (sched.last_completion = NULL /\ sched.anchor_value.date = NULL)
              => sched.result = sched.reference_time

\* A ONE_TIME call without a completion has returned an anchor that lies
\* before the reference time.
C18_OneTimePastAnchorReturned ==
    /\ OneTimeCall
    /\ sched.last_completion = NULL
    /\ sched.result = At(2023, 12, 15, 8, 0)
    /\ sched.result < sched.reference_time

\* C19: for BEFORE_EACH_USE the result is 00:00 of the day of the reference
\* time when there is no completion, and 00:00 of the day after the last
\* completion when there is one, whatever the anchor payload.
BeforeEachUseCall ==
    /\ sched.fn = "compute_next_due"
    /\ sched.returned
    /\ sched.frequency = "BEFORE_EACH_USE"

MidnightOfDayOf(result, dt) ==
    /\ TimeOfDay(result) = 0
    /\ result <= dt
    /\ dt < result + Day

C19_BeforeEachUseStartOfDay ==
    BeforeEachUseCall =>
        IF sched.last_completion = NULL
        THEN MidnightOfDayOf(sched.result, sched.reference_time)
        ELSE MidnightOfDayOf(sched.result, sched.last_completion + Day)

\* A BEFORE_EACH_USE call with a completion at 13:30 and an anchor date in
\* the payload has returned the following midnight.
C19_DayAfterCompletion ==
    /\ BeforeEachUseCall
    /\ HasAnchorDate
    /\ sched.last_completion = At(2024, 2, 1, 13, 30)
    /\ sched.result = At(2024, 2, 2, 0, 0)

\* C20: adding n >= 1 months gives the year and month n months later, the
\* day of the month being the original one or the last day of the target
\* month when that is smaller, and the time of day unchanged; the date never
\* runs over into the month after.
AddMonthsCall ==
    /\ sched.fn = "_add_months"
    /\ sched.returned
    /\ sched.months >= 1

LandsInMonth(base, months, result) ==
    /\ result.year * 12 + result.month = base.year * 12 + base.month + months
    /\ result.day = IF base.day <= monthrange(result.year, result.month)
                    THEN base.day
                    ELSE monthrange(result.year, result.month)

C20_AddMonthsClampsDay ==
    AddMonthsCall =>
        /\ LandsInMonth(DateOf(sched.base), sched.months, DateOf(sched.result))
        /\ TimeOfDay(sched.result) = TimeOfDay(sched.base)
        /\ (sched.base = At(2024, 1, 31, 9, 0) /\ sched.months = 2)
              => sched.result = At(2024, 3, 31, 9, 0)
        /\ (sched.base = At(2024, 1, 31, 9, 0) /\ sched.months = 1)
              => sched.result = At(2024, 2, 29, 9, 0)

\* One month has been added to January 31st of a leap year.
C20_ClampedToLeapDay ==
    /\ AddMonthsCall
    /\ sched.base = At(2024, 1, 31, 9, 0)
    /\ sched.months = 1
    /\ sched.result = At(2024, 2, 29, 9, 0)

\* The call is for an EVERY_N_* cadence whose payload has no interval or one
\* that is not positive.
EveryNWithoutInterval ==
    /\ sched.fn = "compute_next_due"
    /\ sched.returned
    /\ sched.frequency \in {"EVERY_N_DAYS", "EVERY_N_WEEKS", "EVERY_N_MONTHS"}
    /\ (sched.anchor_value.interval = NULL \/ sched.anchor_value.interval <= 0)

\* Lines 203-208: the anchor datetime is returned without advancing.
AnchorReturnedDirectly ==
    IF sched.last_completion = NULL
    THEN AnchorOfCall >= sched.reference_time
    ELSE AnchorOfCall > sched.last_completion

\* C21, as stated: for EVERY_N_DAYS, EVERY_N_WEEKS and EVERY_N_MONTHS the
\* call fails with RecurrenceError whenever the payload carries no interval
\* or a non-positive one, for every anchor date, completion and reference
\* time.
C21_MissingIntervalAlwaysRaises ==
    EveryNWithoutInterval => sched.result = ERR

\* C21, amended: with no interval or a non-positive one the call fails with
\* RecurrenceError exactly when the anchor has to be advanced; when the
\* anchor datetime is returned directly (no completion and the anchor not
\* before the reference time, or a completion earlier than the anchor) the
\* interval is not read and the anchor datetime is the result.
C21_MissingIntervalRaisesWhenAdvancing ==
    EveryNWithoutInterval =>
        IF AnchorReturnedDirectly
        THEN sched.result = AnchorOfCall
        ELSE sched.result = ERR

\* An EVERY_N_* call without a usable interval, with an anchor date not after
\* the completion, has raised.
C21_RaisedAfterCompletion ==
    /\ EveryNWithoutInterval
    /\ HasAnchorDate
    /\ sched.last_completion # NULL
    /\ sched.anchor_value.date <= sched.last_completion
    /\ sched.result = ERR

\* C22: an archive followed by a restore puts a requirement back into the
\* status it had immediately before the archive, whatever that status was;
\* an archive of a requirement whose archive state is already "archived" is
\* rejected and leaves it unchanged; a restore of a requirement that is not
\* archived is rejected.
ArchiveRecordsStatus(old, new) ==
    IF last'.outcome = "ok"
    THEN /\ old.archive.state # "archived"
         /\ new = [old EXCEPT !.status = "ARCHIVED",
                              !.archive = [state |-> "archived",
                                           previous_status |-> old.status]]
    ELSE old.archive.state = "archived" /\ new = old

RestoreReplaysStatus(old, new) ==
    IF last'.outcome = "ok"
    THEN /\ old.archive.state = "archived"
         /\ new = [old EXCEPT !.status = old.archive.previous_status,
                              !.archive.state = "restored"]
    ELSE old.archive.state # "archived" /\ new = old

RecordedStatusKept(old, new) ==
    (old.archive.state = "archived" /\ last'.op # "restore")
       => new.archive = old.archive

C22_ArchiveThenRestoreReplaysStatus ==
    [][\A r \in DOMAIN requirements :
          /\ last'.op = "archive"
                => ArchiveRecordsStatus(requirements[r], requirements'[r])
          /\ last'.op = "restore"
                => RestoreReplaysStatus(requirements[r], requirements'[r])
          /\ RecordedStatusKept(requirements[r], requirements'[r])]_vars

\* A requirement archived while DONE has just been restored to DONE.
C22_RestoredToDone ==
    \E r \in DOMAIN requirements :
        /\ last.op = "restore" /\ last.outcome = "ok"
        /\ requirements[r].archive = [state |-> "restored", previous_status |-> "DONE"]
        /\ requirements[r].status = "DONE"

\* C23: a dispatch pass at reference time T claims only jobs that are
\* PENDING with run_at <= T, at most batch_size of them, those of smallest
\* run_at, and processes them in ascending order of run_at; no job is sent
\* before its run_at.
DuePending(t) == {j \in jobs : j.status = "PENDING" /\ j.run_at <= t}

ClaimedDueInOrder(w) ==
    LET claimed == tx'[w].claimed IN
    (tx[w].pc = "idle" /\ tx'[w].kind = "dispatch")
       => /\ claimed \subseteq DuePending(now)
          /\ tx'[w].t = now
          /\ \E b \in BatchSizes :
                /\ Cardinality(claimed) <= b
                /\ Cardinality(claimed) = b \/ claimed = DuePending(now)
          /\ \A a \in claimed, b \in DuePending(now) \ claimed : a.run_at <= b.run_at

NothingDueWhenNothingClaimed ==
    (last'.op = "dispatch" /\ tx' = tx) => DuePending(now) = {}

ProcessedInOrder(w) ==
    (tx[w].pc = "send" /\ tx'[w].updated # tx[w].updated)
       => \E j \in tx[w].claimed :
             /\ j.id \notin Ids(tx[w].updated)
             /\ Ids(tx'[w].updated) = Ids(tx[w].updated) \cup {j.id}
             /\ j \in jobs /\ j.status = "PENDING" /\ j.run_at <= tx[w].t
             /\ \A c \in tx[w].claimed :
                   IF c.id \in Ids(tx[w].updated) THEN c.run_at <= j.run_at
                   ELSE j.run_at <= c.run_at
             /\ outbox' # outbox => outbox' = outbox (+) SetToBag({JobKey(j)})

C23_ClaimsDueJobsInRunAtOrder ==
    [][/\ \A w \in Workers : ClaimedDueInOrder(w) /\ ProcessedInOrder(w)
       /\ NothingDueWhenNothingClaimed]_vars

\* A pass of batch size 1 has claimed the job of smaller run_at and left a
\* due job that was rescheduled by a failure.
C23_EarlierJobClaimedFirst ==
    \E w \in Workers : \E j \in tx[w].claimed : \E k \in DuePending(now) :
        /\ tx[w].pc = "send"
        /\ Cardinality(tx[w].claimed) = 1
        /\ j.run_at < k.run_at
        /\ k.attempts = 1

\* C24: a send failure that brings attempts to fewer than 3 leaves the job
\* PENDING with one attempt more, last_error recorded and run_at = reference
\* time + 5 minutes, so that no dispatch pass whose reference time is earlier
\* than that run_at takes the job again.
FailureReschedules(w) ==
    (tx[w].pc = "send" /\ tx'[w].updated # tx[w].updated)
       => \A j \in tx[w].claimed : \A k \in tx'[w].updated \ tx[w].updated :
             (k.id = j.id /\ k.last_error = "send failed" /\ k.attempts < MaxAttempts)
                => /\ k.status = "PENDING"
                   /\ k.attempts = j.attempts + 1
                   /\ k.last_attempt_at = tx[w].t
                   /\ k.run_at = tx[w].t + RetryDelay

NotRetriedEarly(w) ==
    (tx[w].pc = "idle" /\ tx'[w].kind = "dispatch")
       => \A j \in tx'[w].claimed :
             j.last_error = "send failed" => j.last_attempt_at + RetryDelay <= now

C24_FailedJobWaitsFiveMinutes ==
    [][\A w \in Workers : FailureReschedules(w) /\ NotRetriedEarly(w)]_vars

\* C25: for each recipient and offset a materializer pass at reference time
\* T computes run_at = due - offset days; when that is earlier than T by at
\* most one hour the job is upserted with run_at = T, when it is earlier by
\* more than one hour no job is created or updated for the offset, otherwise
\* the job is upserted with run_at as computed.  Every job the pass writes
\* has run_at >= T.
RowsOfKey(tbl, tg, e, o) ==
    {j \in tbl : /\ j.target_type = tg.target_type /\ j.target_id = tg.target_id
                 /\ j.target_due_at = tg.due_at /\ j.recipient_email = e
                 /\ j.reminder_offset_days = o}

UpsertedAt(tg, e, o, run_at) ==
    /\ RowsOfKey(jobs', tg, e, o) # {}
    /\ \A j \in RowsOfKey(jobs', tg, e, o) : j.run_at = run_at

GraceWindowApplied(tg, e, o) ==
    LET computed == tg.due_at - o * Day IN
    IF computed >= now THEN UpsertedAt(tg, e, o, computed)
    ELSE IF now - computed <= Hour THEN UpsertedAt(tg, e, o, now)
    ELSE RowsOfKey(jobs', tg, e, o) = RowsOfKey(jobs, tg, e, o)

FoundByUpsert ==
    {j \in jobs :
        /\ Target(j.target_type, j.target_id, j.target_due_at) \in QueueTargets(now)
        /\ j.recipient_email \in recipients
        /\ RunAt(j.target_due_at, j.reminder_offset_days, now) # NULL}

AfterUpsertAsStated(j) ==
    LET run_at == RunAt(j.target_due_at, j.reminder_offset_days, now) IN
    CASE j.status = "FAILED" ->
            [j EXCEPT !.status = "PENDING", !.attempts = 0, !.last_error = NoError,
                      !.run_at = run_at]
      [] j.status = "PENDING" -> [j EXCEPT !.run_at = run_at]
      [] OTHER -> j

NothingScheduledFor(j) ==
    /\ \A k \in jobs' : JobKey(k) = JobKey(j) => k.id = j.id
    /\ \A ev \in BagToSet(events') :
          (/\ ev.type = "reminder_scheduled"
           /\ <<ev.target_type, ev.target_id, ev.recipient, ev.offset_days, ev.due_at>>
                 = JobKey(j))
             => CopiesIn(ev, events') = CopiesIn(ev, events)

C26_ExistingJobRefreshedInPlace ==
    [][(QueueStep /\ last'.outcome = "ok")
          => /\ \A j \in FoundByUpsert :
                   AfterUpsertAsStated(j) \in jobs' /\ NothingScheduledFor(j)
             /\ metrics'.reminders_scheduled_total - metrics.reminders_scheduled_total
                   = Cardinality(Ids(jobs') \ Ids(jobs))]_vars

\* The call has entered the advancement loop with an anchor that parses and
\* a cadence _advance_once can apply.
LoopEntered ==
    /\ sched.fn = "compute_next_due"
    /\ sched.returned
    /\ Recurring(sched.frequency)
    /\ sched.anchor_value.date # InvalidDate
    /\ ~AnchorReturnedDirectly
    /\ sched.frequency \in {"EVERY_N_DAYS", "EVERY_N_WEEKS", "EVERY_N_MONTHS"}
          => sched.anchor_value.interval > 0

\* The cadence period in minutes, for the cadences of fixed length.
PeriodOf(frequency, anchor_value) ==
    CASE frequency = "DAILY" -> Day
      [] frequency = "WEEKLY" -> 7 * Day
      [] frequency = "EVERY_N_DAYS" -> anchor_value.interval * Day
      [] frequency = "EVERY_N_WEEKS" -> anchor_value.interval * 7 * Day
      [] OTHER -> 0

\* The sequence anchor, advance(anchor), advance(advance(anchor)), ...: the
\* index of its first member after the comparison point and that member, the
\* search being given up after limit members.
RECURSIVE FirstAfter(_, _, _, _, _, _)
FirstAfter(value, index, point, frequency, anchor_value, limit) ==
    IF value > point \/ index >= limit THEN [index |-> index, value |-> value]
    ELSE FirstAfter(_advance_once(value, frequency, anchor_value), index + 1, point,
                    frequency, anchor_value, limit)

FirstAfterPoint ==
    LET period == PeriodOf(sched.frequency, sched.anchor_value)
        index == ((ComparisonPoint - AnchorOfCall) \div period) + 1
    IN  IF period > 0
        THEN [index |-> index, value |-> AnchorOfCall + index * period]
        ELSE FirstAfter(AnchorOfCall, 0, ComparisonPoint, sched.frequency,
                        sched.anchor_value, 64)

\* C27: the advancement loop ends after at most 512 applications of
\* advance_once: the call returns the first member of the sequence anchor,
\* advance(anchor), ... that is strictly after the comparison point, and
\* fails with RecurrenceError exactly when the member reached by 512
\* advances is still not after it.
C27_FirstAfterPointWithin512 ==
    LoopEntered =>
        IF FirstAfterPoint.index <= max_loops
        THEN /\ sched.result = FirstAfterPoint.value
             /\ sched.result > ComparisonPoint
        ELSE sched.result = ERR

\* A DAILY call whose anchor lies exactly 512 days before the reference time
\* has failed: the 512th advance reaches the reference time and not more.
C27_CapReached ==
    /\ LoopEntered
    /\ sched.frequency = "DAILY"
    /\ sched.last_completion = NULL
    /\ AnchorOfCall + max_loops * Day = sched.reference_time
    /\ sched.result = ERR

\* C28: each queue_reminders pass scans every recurring requirement that has
\* a next due date, also one that has been completed before: after the pass
\* every member has a job for each offset of that occurrence whose fire time
\* is not missed.
ScannedRecurring ==
    {r \in RequirementIds : /\ requirements[r].exists
                            /\ Recurring(requirements[r].frequency)
                            /\ requirements[r].next_due # NULL}

JobsForOccurrence(r) ==
    \A e \in recipients, o \in REMINDER_OFFSETS :
        RunAt(requirements[r].next_due, o, now) # NULL
           => \E j \in jobs' : /\ j.target_type = "requirement" /\ j.target_id = r
                               /\ j.target_due_at = requirements'[r].next_due
                               /\ j.recipient_email = e
                               /\ j.reminder_offset_days = o

C28_RecurringRequirementsScanned ==
    [][QueueStep => \A r \in ScannedRecurring :
                       /\ last'.outcome = "ok"
                       /\ requirements'[r].next_due # NULL
                       /\ JobsForOccurrence(r)]_vars

\* C29: a FIRST_COMPLETION requirement whose anchor has no date gets its
\* anchor pinned to the time t1 of its first completion, with next_due = t1
\* advanced by one period; every later completion keeps the anchor and sets
\* next_due to the first member of t1, advance(t1), advance(advance(t1)), ...
\* after the completion time, not to the completion time advanced by one
\* period.
GridCadences == {"WEEKLY", "MONTHLY"}

FirstCompletionAnchored(r) ==
    /\ requirements[r].exists
    /\ requirements[r].status # "DONE"
    /\ requirements[r].anchor_type = "FIRST_COMPLETION"
    /\ requirements[r].frequency \in GridCadences
    /\ requirements[r].anchor_value.date \in {NULL} \cup (0 .. now)

GridPointAfter(t1, point, frequency, anchor_value) ==
    FirstAfter(t1, 0, point, frequency, anchor_value, 64).value

OnFirstCompletionGrid(old, new) ==
    IF old.anchor_value.date = NULL
    THEN /\ new.anchor_value.date = now
         /\ new.next_due = _advance_once(now, old.frequency, old.anchor_value)
    ELSE /\ new.anchor_value.date = old.anchor_value.date
         /\ new.next_due = GridPointAfter(old.anchor_value.date, now, old.frequency,
                                          old.anchor_value)
         /\ new.next_due > now

C29_CompletionsStayOnFirstGrid ==
    [][(last'.op = "complete" /\ last'.outcome = "ok")
          => \A r \in RequirementIds :
                FirstCompletionAnchored(r)
                   => OnFirstCompletionGrid(requirements[r], requirements'[r])]_vars

\* A WEEKLY requirement first completed at 2023-01-01T00:00 has been
\* completed again one day later: its next due date is 2023-01-08, one week
\* after the first completion, not 2023-01-09.
C29_SecondCompletionOnFirstGrid ==
    /\ last.op = "complete" /\ last.outcome = "ok"
    /\ \E r \in RequirementIds :
          /\ requirements[r].anchor_type = "FIRST_COMPLETION"
          /\ requirements[r].frequency = "WEEKLY"
          /\ requirements[r].anchor_value.date = 0
          /\ requirements[r].completed_at = Day
          /\ requirements[r].next_due = 7 * Day
          /\ requirements[r].next_due # requirements[r].completed_at + 7 * Day

\* C30: the reminders of a requirement are sent whatever has happened to the
\* requirement since they were queued: a pass of the materializer leaves a
\* PENDING job for every OPEN recurring requirement with a fire time that is
\* not missed, completing or archiving the requirement leaves the job table
\* as it is, and the dispatcher treats a due PENDING job of an existing
\* requirement as any other job (left for a later pass, sent, or counted as a
\* failed send), the status of the requirement playing no part.
RemindersQueuedFor(r) ==
    \A e \in recipients, o \in REMINDER_OFFSETS :
        RunAt(requirements[r].next_due, o, now) # NULL
           => \E j \in jobs' : /\ j.target_type = "requirement" /\ j.target_id = r
                               /\ j.recipient_email = e
                               /\ j.reminder_offset_days = o
                               /\ j.status = "PENDING"

QueuedWhileOpen ==
    QueueStep => \A r \in RequirementIds :
                    (/\ requirements[r].exists
                     /\ requirements[r].status = "OPEN"
                     /\ Recurring(requirements[r].frequency)
                     /\ requirements[r].next_due # NULL) => RemindersQueuedFor(r)

JobsKeptByCompletionAndArchive ==
    (last'.op \in {"complete", "archive"}) => jobs' = jobs

DispatchedWhateverTheStatus ==
    DispatchStep
       => \A j \in DuePending(now) :
             (j.target_type = "requirement" /\ requirements[j.target_id].exists)
                => \/ j \in jobs'
                   \/ OnSendSuccess(j, now) \in jobs'
                   \/ OnSendFailure(j, now) \in jobs'

============================================================================
